---- MODULE Spec2Model ----
(***************************************************************************)
(* The Rat Game: ratsserver.c (matchmaking, admission control, disconnect  *)
(* monitor, referee) as a state machine.                                   *)
(*                                                                         *)
(* Threads: the dispatcher (accept_loop), one worker per accepted          *)
(* connection (client_greeting_thread, which becomes the referee when it   *)
(* seats the 4th player), and the disconnect monitor                       *)
(* (pending_fd_monitor_thread).  One action is one critical section under  *)
(* pendingGamesMutex, or one block of thread-local work between two of     *)
(* them.                                                                   *)
(*                                                                         *)
(* Heap: a Game lives at an address.  free() marks the object freed but    *)
(* its bytes stay readable; a read of playerCount through a dangling       *)
(* pointer yields any value, a second free() of the same object either     *)
(* aborts the process or goes unnoticed.  calloc() always hands out an     *)
(* address that was never used before.                                     *)
(***************************************************************************)
EXTENDS Integers, Sequences, FiniteSets, TLC

(* ---- program constants ---- *)
MAX_PLAYERS == 4
MAX_TRICK == 13
NUM8 == 8
NUM26 == 26
NUM104 == 104

(* ---- bounds of the model ---- *)
MaxClients == 5        \* connections the dispatcher accepts in one run
MaxConnsTop == 4       \* largest configured maxconns explored (1..MaxConnsTop)
MaxNameLen == 2        \* longest player name drawn for the reseat check
MaxRotation == 51      \* deck rotations drawn for the deal check
MaxDropTrick == 1      \* a game that is dropped ends in one of tricks 1..MaxDropTrick+1
MaxAdmitted == 9       \* connections accepted in one run of the admission scenario
MaxTrickShift == 3     \* deck shifts drawn for the trick scenario
MaxSlotClients == 3    \* connections accepted in one run of the slot scenario
MaxClientHand == 3     \* cards of the H line of the client scenario
MaxLobbyClients == 4   \* connections accepted in one run of the two-lobby scenario
MaxJoinClients == 5    \* clients of the five-joiner scenario
MaxClosingPeers == 2   \* peers that may close in the abandoned-lobby scenario
MaxGarbage == 2        \* bytes printed behind the cards of an H line

Addrs == 1..MaxClients
Seats == 0..(MAX_PLAYERS - 1)

\* Player names are C strings: sequences of character codes.  A name stored
\* in a Game is never empty (read_join_info rejects empty lines), so the
\* empty sequence stands for the NULL pointer.
NULL == <<>>
JoinNames == {<<66>>}
GameNames == {"Foo"}

VARIABLES
    maxConns,        \* ServerContext.maxConns
    activeClients,   \* ServerContext.activeClients
    dpc,             \* dispatcher: "acquire", "waiting" (in cond_wait), "accept"
    stats,           \* the atomic counters of ServerContext
    games,           \* heap: address -> Game object
    pending,         \* pendingGamesHead list, head first, as addresses
    workers,         \* per connection: the state of its client_greeting_thread
    open,            \* connections whose fd the server has not closed
    peerClosed,      \* open connections on which poll() reports HUP/ERR and reads hit EOF
    slotRel,         \* per connection: releases of its admission slot so far
    orphanRel,       \* releases performed for a seat that held no connection
    crashed,         \* the process was aborted by the allocator
    refs,            \* per Game: workers that got seat index 3 from it so far
    call             \* harness for the pure functions (reseat, deal)

\* The connections of a run: one worker record per connection.
Conns == DOMAIN workers

vars == <<maxConns, activeClients, dpc, stats, games, pending, workers, open,
          peerClosed, slotRel, orphanRel, crashed, refs, call>>

(* ======================================================================= *)
(* Pure helpers                                                            *)
(* ======================================================================= *)

\* strcmp: sign of the first differing character; a proper prefix is smaller.
RECURSIVE strcmp(_, _)
strcmp(a, b) ==
    IF a = <<>> /\ b = <<>> THEN 0
    ELSE IF a = <<>> THEN -1
    ELSE IF b = <<>> THEN 1
    ELSE IF Head(a) < Head(b) THEN -1
    ELSE IF Head(a) > Head(b) THEN 1
    ELSE strcmp(Tail(a), Tail(b))

\* The comparison of start_game: NULL names sort after every string.
NameCmp(ai, aj) ==
    IF ai # NULL /\ aj # NULL THEN strcmp(ai, aj)
    ELSE IF ai # NULL /\ aj = NULL THEN -1
    ELSE IF ai = NULL /\ aj # NULL THEN 1
    ELSE 0

\* The (i, j) pairs of the two nested loops of start_game, in execution order.
SortPairs == <<  <<0, 1>>, <<0, 2>>, <<0, 3>>, <<1, 2>>, <<1, 3>>, <<2, 3>>  >>

SortStepWrong(names, order, i, j) ==
    IF NameCmp(names[order[i]], names[order[j]]) < 0
    THEN [order EXCEPT ![i] = order[j], ![j] = order[i]]
    ELSE order

\* One iteration of the inner loop: swap order[i], order[j] when cmp > 0.
SortStep(names, order, i, j) ==
    IF NameCmp(names[order[i]], names[order[j]]) > 0
    THEN [order EXCEPT ![i] = order[j], ![j] = order[i]]
    ELSE order

RECURSIVE SortFrom(_, _, _)
SortFrom(names, order, k) ==
    IF k > Len(SortPairs) THEN order
    ELSE SortFrom(names, SortStep(names, order, SortPairs[k][1], SortPairs[k][2]), k + 1)

\* order[] after the sort loops of start_game.
ReseatOrder(names) == SortFrom(names, [s \in Seats |-> s], 1)

\* The Game after the reseat step: seat s takes the fd and name of order[s].
Reseat(g) ==
    LET order == ReseatOrder(g.playerNames)
    IN [g EXCEPT !.playerFds   = [s \in Seats |-> g.playerFds[order[s]]],
                 !.playerNames = [s \in Seats |-> g.playerNames[order[s]]]]

(* ======================================================================= *)
(* Heap and pending list                                                   *)
(* ======================================================================= *)

NoGame == [state |-> "unused", gameName |-> "", playerCount |-> 0,
           playerFds |-> [s \in Seats |-> -1],
           playerNames |-> [s \in Seats |-> NULL]]

\* calloc + field initialisation in get_or_create_pending_game.
NewGame(gameName) == [NoGame EXCEPT !.state = "live", !.gameName = gameName]

FindPendingNone(list, gameName) == 0

RECURSIVE FindPending(_, _)
\* The list walk of get_or_create_pending_game: first node with that name, 0 if none.
FindPending(list, gameName) ==
    IF list = <<>> THEN 0
    ELSE IF games[Head(list)].gameName = gameName THEN Head(list)
    ELSE FindPending(Tail(list), gameName)

RECURSIVE RemoveFirst(_, _)
\* The cursor walk of unlink_pending_game: drop the first node equal to target.
RemoveFirst(list, target) ==
    IF list = <<>> THEN <<>>
    ELSE IF Head(list) = target THEN Tail(list)
    ELSE <<Head(list)>> \o RemoveFirst(Tail(list), target)

InPending(a) == \E i \in 1..Len(pending) : pending[i] = a

FreshAddr == CHOOSE a \in Addrs : games[a].state = "unused" /\
                 \A b \in Addrs : games[b].state = "unused" => a <= b

(* ======================================================================= *)
(* Admission control                                                       *)
(* ======================================================================= *)

\* release_conn_slot / the monitor: decrement with a floor at zero.
Released(n) == IF n > 0 THEN n - 1 ELSE n

SignalLost(d) == d

\* pthread_cond_signal(canAccept): the dispatcher is the only waiter.
Signalled(d) == IF d = "waiting" THEN "acquire" ELSE d

(* ======================================================================= *)
(* Disconnect monitor                                                      *)
(* ======================================================================= *)

EvictSeatNoShift(g, s) ==
    [g EXCEPT !.playerFds = [t \in Seats |-> IF t = s THEN -1 ELSE g.playerFds[t]],
              !.playerNames = [t \in Seats |-> IF t = s THEN NULL ELSE g.playerNames[t]],
              !.playerCount = g.playerCount - 1]

\* Lines 1596-1603: free the name, shift seats s+1..pc-1 down, clear seat pc-1.
EvictSeat(g, s) ==
    LET pc == g.playerCount
    IN [g EXCEPT !.playerFds = [t \in Seats |->
                        IF t >= s /\ t < pc - 1 THEN g.playerFds[t + 1]
                        ELSE IF t = pc - 1 THEN -1
                        ELSE g.playerFds[t]],
                 !.playerNames = [t \in Seats |->
                        IF t >= s /\ t < pc - 1 THEN g.playerNames[t + 1]
                        ELSE IF t = pc - 1 THEN NULL
                        ELSE g.playerNames[t]],
                 !.playerCount = pc - 1]

\* poll() reports POLLHUP/POLLERR/POLLNVAL on this fd.
HungNever(fd) == FALSE

Hung(fd) == fd \in peerClosed

RECURSIVE SweepGame(_, _, _)
\* The seat loop over one Game, from seat s on: the Game after the loop and
\* the fds it closed, in order.  After an eviction the same index is polled again.
SweepGame(g, s, closed) ==
    IF s >= g.playerCount THEN [game |-> g, closed |-> closed]
    ELSE IF g.playerFds[s] < 0 THEN SweepGame(g, s + 1, closed)
    ELSE IF Hung(g.playerFds[s])
         THEN SweepGame(EvictSeat(g, s), s, Append(closed, g.playerFds[s]))
    ELSE SweepGame(g, s + 1, closed)

Swept(a) == SweepGame(games[a], 0, <<>>)

RECURSIVE ConcatClosed(_)
ConcatClosed(list) ==
    IF list = <<>> THEN <<>>
    ELSE Swept(Head(list)).closed \o ConcatClosed(Tail(list))

Range(seq) == {seq[i] : i \in 1..Len(seq)}

RECURSIVE ReleasedTimes(_, _)
ReleasedTimes(n, k) == IF k = 0 THEN n ELSE ReleasedTimes(Released(n), k - 1)

(* ======================================================================= *)
(* Initial state                                                           *)
(* ======================================================================= *)

IdleWorker == [pc |-> "none", game |-> 0, name |-> NULL, seatIndex |-> -1,
               trick |-> 0, ended |-> 0, rel |-> 0, fds |-> [s \in Seats |-> -1]]

ZeroStats == [totalPlayersConnected |-> 0, gamesRunning |-> 0, gamesCompleted |-> 0,
              gamesTerminated |-> 0, totalTricksPlayed |-> 0, activeClientSockets |-> 0]

NoCall == [fn |-> "none"]

InitServer(mc, clients) ==
    /\ maxConns = mc
    /\ activeClients = 0
    /\ dpc = "acquire"
    /\ stats = ZeroStats
    /\ games = [a \in Addrs |-> NoGame]
    /\ pending = <<>>
    /\ workers = [c \in 1..clients |-> IdleWorker]
    /\ open = {}
    /\ peerClosed = {}
    /\ slotRel = [c \in 1..clients |-> 0]
    /\ orphanRel = 0
    /\ crashed = FALSE
    /\ refs = [a \in Addrs |-> 0]

Init ==
    /\ \E mc \in 1..MaxConnsTop : InitServer(mc, MaxClients)
    /\ call = NoCall

(* ======================================================================= *)
(* Dispatcher: accept_loop                                                 *)
(* ======================================================================= *)

AcquireConnSlotNoLimit ==
    /\ ~crashed
    /\ dpc = "acquire"
    /\ activeClients' = activeClients + 1
    /\ dpc' = "accept"
    /\ UNCHANGED <<maxConns, stats, games, pending, workers, open, peerClosed,
                   slotRel, orphanRel, crashed, refs, call>>

\* acquire_conn_slot: wait while maxConns > 0 and activeClients >= maxConns,
\* then take a slot.
AcquireConnSlot ==
    /\ ~crashed
    /\ dpc = "acquire"
    /\ IF maxConns > 0 /\ activeClients >= maxConns
       THEN /\ dpc' = "waiting"
            /\ UNCHANGED activeClients
       ELSE /\ activeClients' = activeClients + 1
            /\ dpc' = "accept"
    /\ UNCHANGED <<maxConns, stats, games, pending, workers, open, peerClosed,
                   slotRel, orphanRel, crashed, refs, call>>

\* accept() returns a new connection; the worker thread is created.
Accept(limit) ==
    /\ ~crashed
    /\ dpc = "accept"
    /\ stats.totalPlayersConnected < limit
    /\ LET c == stats.totalPlayersConnected + 1
       IN /\ open' = open \cup {c}
          /\ workers' = [workers EXCEPT ![c].pc = "handshake"]
    /\ stats' = [stats EXCEPT !.activeClientSockets = @ + 1,
                              !.totalPlayersConnected = @ + 1]
    /\ dpc' = "acquire"
    /\ UNCHANGED <<maxConns, activeClients, games, pending, peerClosed,
                   slotRel, orphanRel, crashed, refs, call>>

\* accept() fails with an error other than EINTR: the slot is given back.
AcceptFail ==
    /\ ~crashed
    /\ dpc = "accept"
    /\ activeClients' = Released(activeClients)
    /\ dpc' = "acquire"
    /\ UNCHANGED <<maxConns, stats, games, pending, workers, open, peerClosed,
                   slotRel, orphanRel, crashed, refs, call>>

(* ======================================================================= *)
(* Peers                                                                   *)
(* ======================================================================= *)

\* Connection c sits in a seat of some Game object.
Seated(c) == \E a \in Addrs, s \in Seats : games[a].playerFds[s] = c

\* The client behind connection c closes its socket.  The server notices a
\* close only by poll() or a read on a seated connection (a handshake read
\* may fail at any time anyway), so a close is taken when c is seated.
PeerClose(c) ==
    /\ ~crashed
    /\ c \in open
    /\ c \notin peerClosed
    /\ Seated(c)
    /\ peerClosed' = peerClosed \cup {c}
    /\ UNCHANGED <<maxConns, activeClients, dpc, stats, games, pending, workers,
                   open, slotRel, orphanRel, crashed, refs, call>>

(* ======================================================================= *)
(* Worker: client_greeting_thread, handle_client_join                      *)
(* ======================================================================= *)

CloseNoRelease(c) ==
    /\ open' = open \ {c}
    /\ peerClosed' = peerClosed \ {c}
    /\ stats' = [stats EXCEPT !.activeClientSockets = @ - 1]
    /\ UNCHANGED <<activeClients, dpc, slotRel>>
    /\ workers' = [workers EXCEPT ![c] = [IdleWorker EXCEPT !.pc = "done"]]

\* Lines 356-358: close(clientFd), activeClientSockets--, release_conn_slot.
CloseAndRelease(c) ==
    /\ open' = open \ {c}
    /\ peerClosed' = peerClosed \ {c}
    /\ stats' = [stats EXCEPT !.activeClientSockets = @ - 1]
    /\ activeClients' = Released(activeClients)
    /\ dpc' = Signalled(dpc)
    /\ slotRel' = [slotRel EXCEPT ![c] = @ + 1]
    /\ workers' = [workers EXCEPT ![c] = [IdleWorker EXCEPT !.pc = "done"]]

\* What a peer sends before it stops sending: no line, an empty name line,
\* a name only, a name and an empty game line, an empty name and a game, or
\* a name and a game.  A line is a sequence of character codes.
JoinLines == { <<>>, <<NULL>>, << <<66>> >>, << <<66>>, NULL >>, << NULL, <<70>> >>,
               << <<66>>, <<70>> >> }

\* read_join_info: both lines must arrive and be non-empty.
read_join_info(lines) ==
    /\ Len(lines) >= 1
    /\ lines[1] # NULL
    /\ Len(lines) >= 2
    /\ lines[2] # NULL

\* read_join_info fails (EOF before both lines, or an empty line): seatIndex < 0.
HandshakeFail(c) ==
    /\ ~crashed
    /\ workers[c].pc = "handshake"
    /\ \E lines \in JoinLines : ~read_join_info(lines)
    /\ CloseAndRelease(c)
    /\ UNCHANGED <<maxConns, games, pending, orphanRel, crashed, refs, call>>

\* read_join_info succeeded with (playerName, gameName); get_or_create_pending_game.
GetOrCreatePendingGame(c, playerName, gameName) ==
    /\ ~crashed
    /\ workers[c].pc = "handshake"
    /\ LET found == FindPending(pending, gameName)
       IN IF found # 0
          THEN /\ workers' = [workers EXCEPT ![c].pc = "add", ![c].game = found,
                                             ![c].name = playerName]
               /\ UNCHANGED <<games, pending>>
          ELSE /\ games' = [games EXCEPT ![FreshAddr] = NewGame(gameName)]
               /\ pending' = <<FreshAddr>> \o pending
               /\ workers' = [workers EXCEPT ![c].pc = "add", ![c].game = FreshAddr,
                                             ![c].name = playerName]
    /\ UNCHANGED <<maxConns, activeClients, dpc, stats, open, peerClosed,
                   slotRel, orphanRel, crashed, refs, call>>

\* Lines 629-638: the Game after seating clientFd at index n.
SeatPlayer(g, n, playerName, clientFd) ==
    [g EXCEPT !.playerFds[n] = clientFd,
              !.playerNames[n] = playerName,
              !.playerCount = n + 1]

\* The value add_player_to_pending_game reads for game->playerCount: the
\* field of a live object, anything through a dangling pointer.
PlayerCountRead(g) ==
    IF g.state = "freed" THEN 0..MAX_PLAYERS ELSE {g.playerCount}

\* add_player_to_pending_game, then the seatIndex tests of
\* handle_client_join and client_greeting_thread.
AddPlayerToPendingGame(c) ==
    /\ ~crashed
    /\ workers[c].pc = "add"
    /\ LET a == workers[c].game
       IN \E n \in PlayerCountRead(games[a]) :
            IF n >= MAX_PLAYERS
            THEN /\ workers' = [workers EXCEPT ![c].pc = "failed", ![c].seatIndex = -1,
                                               ![c].name = NULL]
                 /\ UNCHANGED <<games, refs>>
            ELSE /\ games' = [games EXCEPT ![a] = SeatPlayer(games[a], n, workers[c].name, c)]
                 /\ workers' = [workers EXCEPT ![c] =
                        IF n < MAX_PLAYERS - 1
                        THEN [IdleWorker EXCEPT !.pc = "seated"]
                        ELSE [@ EXCEPT !.pc = "unlink", !.seatIndex = n, !.name = NULL]]
                 /\ refs' = IF n = MAX_PLAYERS - 1 THEN [refs EXCEPT ![a] = @ + 1] ELSE refs
    /\ UNCHANGED <<maxConns, activeClients, dpc, stats, pending, open, peerClosed,
                   slotRel, orphanRel, crashed, call>>

\* seatIndex < 0 after add_player_to_pending_game returned -1.
JoinRejected(c) ==
    /\ ~crashed
    /\ workers[c].pc = "failed"
    /\ CloseAndRelease(c)
    /\ UNCHANGED <<maxConns, games, pending, orphanRel, crashed, refs, call>>

\* unlink_pending_game, called by the worker that got seatIndex 3.
UnlinkPendingGame(c) ==
    /\ ~crashed
    /\ workers[c].pc = "unlink"
    /\ pending' = RemoveFirst(pending, workers[c].game)
    /\ workers' = [workers EXCEPT ![c].pc = "start"]
    /\ UNCHANGED <<maxConns, activeClients, dpc, stats, games, open, peerClosed,
                   slotRel, orphanRel, crashed, refs, call>>

(* ======================================================================= *)
(* Referee: start_game                                                     *)
(* ======================================================================= *)

\* Lines 1672-1731: reseat, announce teams, deal, open the streams.
StartGame(c) ==
    /\ ~crashed
    /\ workers[c].pc = "start"
    /\ games' = [games EXCEPT ![workers[c].game] = Reseat(@)]
    /\ workers' = [workers EXCEPT ![c].pc = "dealt"]
    /\ UNCHANGED <<maxConns, activeClients, dpc, stats, pending, open, peerClosed,
                   slotRel, orphanRel, crashed, refs, call>>

BeginPlayNoCount(c) ==
    /\ ~crashed
    /\ workers[c].pc = "dealt"
    /\ workers' = [workers EXCEPT ![c].pc = "playing", ![c].trick = 0, ![c].ended = 0]
    /\ UNCHANGED <<maxConns, activeClients, dpc, stats, games, pending, open, peerClosed,
                   slotRel, orphanRel, crashed, refs, call>>

\* Line 1733: gamesRunning++ and entry into play_tricks.
BeginPlay(c) ==
    /\ ~crashed
    /\ workers[c].pc = "dealt"
    /\ stats' = [stats EXCEPT !.gamesRunning = @ + 1]
    /\ workers' = [workers EXCEPT ![c].pc = "playing", ![c].trick = 0, ![c].ended = 0]
    /\ UNCHANGED <<maxConns, activeClients, dpc, games, pending, open, peerClosed,
                   slotRel, orphanRel, crashed, refs, call>>

\* Every seat of the Game has a stream (fd >= 0) whose peer still answers.
AllSeatsAnswer(g) ==
    \A s \in Seats : g.playerFds[s] >= 0 /\ g.playerFds[s] \notin peerClosed

\* play_tricks, tricks tricks of which end with a winner: all MAX_TRICK of
\* them (return 0), or fewer because the read of a seat in the next trick
\* fails (handle_disconnect_early: gamesTerminated++, return 1).  Every seat
\* is read in the first trick, so a seat without a stream or with a closed
\* peer ends the game there; otherwise the peer of seat drop closes during
\* that trick.  play_tricks shares only the atomic counters with the other
\* threads.
PlayTricks(c, tricks, drop) ==
    /\ ~crashed
    /\ workers[c].pc = "playing"
    /\ LET g == games[workers[c].game]
       IN IF AllSeatsAnswer(g)
          THEN IF tricks = MAX_TRICK
               THEN /\ stats' = [stats EXCEPT !.totalTricksPlayed = @ + MAX_TRICK]
                    /\ workers' = [workers EXCEPT ![c].pc = "ended", ![c].trick = MAX_TRICK,
                                                  ![c].ended = 0]
                    /\ UNCHANGED peerClosed
               ELSE /\ stats' = [stats EXCEPT !.totalTricksPlayed = @ + tricks,
                                              !.gamesTerminated = @ + 1]
                    /\ workers' = [workers EXCEPT ![c].pc = "ended", ![c].trick = tricks,
                                                  ![c].ended = 1]
                    /\ peerClosed' = peerClosed \cup {g.playerFds[drop]}
          ELSE /\ tricks = 0
               /\ drop = 0
               /\ stats' = [stats EXCEPT !.gamesTerminated = @ + 1]
               /\ workers' = [workers EXCEPT ![c].pc = "ended", ![c].trick = 0,
                                             ![c].ended = 1]
               /\ UNCHANGED peerClosed
    /\ UNCHANGED <<maxConns, activeClients, dpc, games, pending, open,
                   slotRel, orphanRel, crashed, refs, call>>

ClosedFds(g) == {g.playerFds[s] : s \in {t \in Seats : g.playerFds[t] >= 0}}

EndGameKeepsRunning(c) ==
    /\ ~crashed
    /\ workers[c].pc = "ended"
    /\ LET a == workers[c].game
           g == games[a]
       IN /\ stats' = [stats EXCEPT
                 !.gamesCompleted = IF workers[c].ended = 0 THEN @ + 1 ELSE @,
                 !.activeClientSockets = @ - Cardinality(ClosedFds(g))]
          /\ open' = open \ ClosedFds(g)
          /\ peerClosed' = peerClosed \ ClosedFds(g)
          /\ games' = [games EXCEPT ![a].playerFds = [s \in Seats |-> -1],
                                    ![a].playerNames = [s \in Seats |-> NULL]]
          /\ workers' = [workers EXCEPT ![c].pc = "release", ![c].rel = 0,
                                        ![c].fds = g.playerFds]
    /\ UNCHANGED <<maxConns, activeClients, dpc, pending, slotRel, orphanRel,
                   crashed, refs, call>>

\* Lines 1735-1754: gamesRunning--, gamesCompleted++ on normal completion,
\* close every fd >= 0 (activeClientSockets-- each), clear fds and names.
EndGame(c) ==
    /\ ~crashed
    /\ workers[c].pc = "ended"
    /\ LET a == workers[c].game
           g == games[a]
       IN /\ stats' = [stats EXCEPT
                 !.gamesRunning = @ - 1,
                 !.gamesCompleted = IF workers[c].ended = 0 THEN @ + 1 ELSE @,
                 !.activeClientSockets = @ - Cardinality(ClosedFds(g))]
          /\ open' = open \ ClosedFds(g)
          /\ peerClosed' = peerClosed \ ClosedFds(g)
          /\ games' = [games EXCEPT ![a].playerFds = [s \in Seats |-> -1],
                                    ![a].playerNames = [s \in Seats |-> NULL]]
          /\ workers' = [workers EXCEPT ![c].pc = "release", ![c].rel = 0,
                                        ![c].fds = g.playerFds]
    /\ UNCHANGED <<maxConns, activeClients, dpc, pending, slotRel, orphanRel,
                   crashed, refs, call>>

\* Lines 1757-1760: one of the four release_conn_slot calls; free(game)
\* follows the fourth.
ReleaseConnSlot(c) ==
    /\ ~crashed
    /\ workers[c].pc = "release"
    /\ activeClients' = Released(activeClients)
    /\ dpc' = Signalled(dpc)
    /\ LET fd == workers[c].fds[workers[c].rel]
       IN IF fd >= 0
          THEN /\ slotRel' = [slotRel EXCEPT ![fd] = @ + 1]
               /\ UNCHANGED orphanRel
          ELSE /\ orphanRel' = orphanRel + 1
               /\ UNCHANGED slotRel
    /\ IF workers[c].rel + 1 < MAX_PLAYERS
       THEN /\ workers' = [workers EXCEPT ![c].rel = @ + 1]
            /\ UNCHANGED <<games, crashed>>
       ELSE /\ workers' = [workers EXCEPT ![c] = [IdleWorker EXCEPT !.pc = "done"]]
            /\ IF games[workers[c].game].state = "freed"
               THEN /\ crashed' \in BOOLEAN
                    /\ UNCHANGED games
               ELSE /\ games' = [games EXCEPT ![workers[c].game].state = "freed"]
                    /\ UNCHANGED crashed
    /\ UNCHANGED <<maxConns, stats, pending, open, peerClosed, refs, call>>

(* ======================================================================= *)
(* Disconnect monitor: pending_fd_monitor_thread                           *)
(* ======================================================================= *)

\* One sweep under pendingGamesMutex over every Game of the pending list.
MonitorSweep ==
    LET closed == ConcatClosed(pending)
    IN /\ ~crashed
       /\ closed # <<>>
       /\ games' = [a \in Addrs |-> IF InPending(a) THEN Swept(a).game ELSE games[a]]
       /\ open' = open \ Range(closed)
       /\ peerClosed' = peerClosed \ Range(closed)
       /\ stats' = [stats EXCEPT !.activeClientSockets = @ - Len(closed)]
       /\ activeClients' = ReleasedTimes(activeClients, Len(closed))
       /\ dpc' = Signalled(dpc)
       /\ slotRel' = [c \in Conns |-> IF c \in Range(closed) THEN slotRel[c] + 1
                                      ELSE slotRel[c]]
       /\ UNCHANGED <<maxConns, pending, workers, orphanRel, crashed, refs, call>>

(* ======================================================================= *)
(* Specification of the server                                             *)
(* ======================================================================= *)

Next ==
    \/ AcquireConnSlot
    \/ Accept(MaxClients)
    \/ AcceptFail
    \/ \E c \in Conns : PeerClose(c)
    \/ \E c \in Conns : HandshakeFail(c)
    \/ \E c \in Conns, n \in JoinNames, gn \in GameNames : GetOrCreatePendingGame(c, n, gn)
    \/ \E c \in Conns : AddPlayerToPendingGame(c)
    \/ \E c \in Conns : JoinRejected(c)
    \/ \E c \in Conns : UnlinkPendingGame(c)
    \/ \E c \in Conns : StartGame(c)
    \/ \E c \in Conns : BeginPlay(c)
    \/ \E c \in Conns, tricks \in (0..MaxDropTrick) \cup {MAX_TRICK}, drop \in Seats :
           PlayTricks(c, tricks, drop)
    \/ \E c \in Conns : EndGame(c)
    \/ \E c \in Conns : ReleaseConnSlot(c)
    \/ MonitorSweep

Spec == Init /\ [][Next]_vars

\* The admission scenario: maxconns 4, every handshake valid, accept() never
\* failing, only the first client ever closing its socket, a dropped game
\* ending in its first trick.  Every behaviour of it is a behaviour of the
\* server with more clients.
InitAdmission ==
    /\ InitServer(MAX_PLAYERS, MaxAdmitted)
    /\ call = NoCall

NextAdmission ==
    \/ AcquireConnSlot
    \/ Accept(MaxAdmitted)
    \/ PeerClose(1)
    \/ \E c \in Conns, n \in JoinNames, gn \in GameNames : GetOrCreatePendingGame(c, n, gn)
    \/ \E c \in Conns : AddPlayerToPendingGame(c)
    \/ \E c \in Conns : UnlinkPendingGame(c)
    \/ \E c \in Conns : StartGame(c)
    \/ \E c \in Conns : BeginPlay(c)
    \/ \E c \in Conns : PlayTricks(c, 0, 0)
    \/ \E c \in Conns : EndGame(c)
    \/ \E c \in Conns : ReleaseConnSlot(c)
    \/ MonitorSweep

SpecAdmission == InitAdmission /\ [][NextAdmission]_vars

\* The slot scenario: maxconns 0 (unlimited) or 2, a few clients that
\* connect, fail the handshake or join a lobby and may hang up; too few for a
\* game to start.  The dispatcher is scheduled fairly.
InitSlots ==
    /\ \E mc \in {0, 2} : InitServer(mc, MaxSlotClients)
    /\ call = NoCall

NextSlots ==
    \/ AcquireConnSlot
    \/ Accept(MaxSlotClients)
    \/ AcceptFail
    \/ \E c \in Conns : PeerClose(c)
    \/ \E c \in Conns : HandshakeFail(c)
    \/ \E c \in Conns, n \in JoinNames, gn \in GameNames : GetOrCreatePendingGame(c, n, gn)
    \/ \E c \in Conns : AddPlayerToPendingGame(c)
    \/ MonitorSweep

SpecSlots == InitSlots /\ [][NextSlots]_vars /\ WF_vars(AcquireConnSlot)

\* The two-lobby scenario: no connection limit, two game names, and as many
\* clients as one game takes, so no join is refused.
LobbyNames == {"Foo", "Bar"}

InitLobbies ==
    /\ InitServer(0, MaxLobbyClients)
    /\ call = NoCall

NextLobbies ==
    \/ AcquireConnSlot
    \/ Accept(MaxLobbyClients)
    \/ \E c \in Conns : PeerClose(c)
    \/ \E c \in Conns : HandshakeFail(c)
    \/ \E c \in Conns, n \in JoinNames, gn \in LobbyNames : GetOrCreatePendingGame(c, n, gn)
    \/ \E c \in Conns : AddPlayerToPendingGame(c)
    \/ \E c \in Conns : UnlinkPendingGame(c)
    \/ \E c \in Conns : StartGame(c)
    \/ \E c \in Conns : BeginPlay(c)
    \/ \E c \in Conns : PlayTricks(c, 0, 0)
    \/ \E c \in Conns : EndGame(c)
    \/ \E c \in Conns : ReleaseConnSlot(c)
    \/ MonitorSweep

SpecLobbies == InitLobbies /\ [][NextLobbies]_vars

\* The five-joiner scenario: no connection limit, one game name, one client
\* more than a game takes, every handshake valid and no peer closing before
\* its game plays.
InitJoins ==
    /\ InitServer(0, MaxJoinClients)
    /\ call = NoCall

NextJoins ==
    \/ AcquireConnSlot
    \/ Accept(MaxJoinClients)
    \/ \E c \in Conns, n \in JoinNames, gn \in GameNames : GetOrCreatePendingGame(c, n, gn)
    \/ \E c \in Conns : AddPlayerToPendingGame(c)
    \/ \E c \in Conns : JoinRejected(c)
    \/ \E c \in Conns : UnlinkPendingGame(c)
    \/ \E c \in Conns : StartGame(c)
    \/ \E c \in Conns : BeginPlay(c)
    \/ \E c \in Conns : PlayTricks(c, 0, 0)
    \/ \E c \in Conns : EndGame(c)
    \/ \E c \in Conns : ReleaseConnSlot(c)

SpecJoins == InitJoins /\ [][NextJoins]_vars

\* The abandoned-lobby scenario: no connection limit, one game name, as many
\* clients as one game takes, every handshake valid, the first
\* MaxClosingPeers peers closing at any time once seated.  The monitor
\* thread loops for ever with a 100 ms pause and takes pendingGamesMutex for
\* one sweep at a time, so a sweep that has a seat to evict is not postponed
\* for ever.
InitMonitor ==
    /\ InitServer(0, MaxLobbyClients)
    /\ call = NoCall

NextMonitor ==
    \/ AcquireConnSlot
    \/ Accept(MaxLobbyClients)
    \/ \E c \in 1..MaxClosingPeers : PeerClose(c)
    \/ \E c \in Conns, n \in JoinNames, gn \in GameNames : GetOrCreatePendingGame(c, n, gn)
    \/ \E c \in Conns : AddPlayerToPendingGame(c)
    \/ \E c \in Conns : UnlinkPendingGame(c)
    \/ \E c \in Conns : StartGame(c)
    \/ \E c \in Conns : BeginPlay(c)
    \/ \E c \in Conns : PlayTricks(c, 0, 0)
    \/ \E c \in Conns : EndGame(c)
    \/ \E c \in Conns : ReleaseConnSlot(c)
    \/ MonitorSweep

SpecMonitor == InitMonitor /\ [][NextMonitor]_vars /\ WF_vars(MonitorSweep)

(* ======================================================================= *)
(* The reseat step of start_game on its own                                *)
(* ======================================================================= *)

\* Characters of the player names drawn: 'A' and 'B'.
NameChars == {65, 66}

\* Every non-empty name of at most MaxNameLen characters.
PlayerNameSet == UNION {[1..n -> NameChars] : n \in 1..MaxNameLen}

\* A Game as unlink_pending_game hands it to start_game: four seats in join
\* order, seat s held by the connection that joined s-th (fd s + 1).
FullGame(names) ==
    [NewGame("Foo") EXCEPT !.playerCount = MAX_PLAYERS,
                           !.playerFds = [s \in Seats |-> s + 1],
                           !.playerNames = names]

\* The team announcement: Team 1 names seats 0 and 2, Team 2 seats 1 and 3;
\* a seat without a name is announced as P<seat + 1>.
TeamMsgs(g) ==
    [team1 |-> << IF g.playerNames[0] # NULL THEN g.playerNames[0] ELSE "P1",
                  IF g.playerNames[2] # NULL THEN g.playerNames[2] ELSE "P3" >>,
     team2 |-> << IF g.playerNames[1] # NULL THEN g.playerNames[1] ELSE "P2",
                  IF g.playerNames[MAX_PLAYERS - 1] # NULL
                  THEN g.playerNames[MAX_PLAYERS - 1] ELSE "P4" >>]

NoTeams == [team1 |-> <<>>, team2 |-> <<>>]

InitReseat ==
    /\ InitServer(MAX_PLAYERS, MaxClients)
    /\ \E names \in [Seats -> PlayerNameSet] :
          call = [fn |-> "reseat", before |-> FullGame(names),
                  game |-> FullGame(names), teams |-> NoTeams, done |-> FALSE]

\* Lines 1672-1716 of start_game applied to the Game of the call.
ReseatCall ==
    /\ call.fn = "reseat"
    /\ ~call.done
    /\ call' = [call EXCEPT !.game = Reseat(@),
                            !.teams = TeamMsgs(Reseat(call.game)),
                            !.done = TRUE]
    /\ UNCHANGED <<maxConns, activeClients, dpc, stats, games, pending, workers,
                   open, peerClosed, slotRel, orphanRel, crashed, refs>>

NextReseat == ReseatCall

SpecReseat == InitReseat /\ [][NextReseat]_vars

(* ======================================================================= *)
(* build_hands_from_deck on its own                                        *)
(* ======================================================================= *)

RANKS_STRING == <<"2", "3", "4", "5", "6", "7", "8", "9", "T", "J", "Q", "K", "A">>
SUITS == <<"S", "C", "D", "H">>

\* The n-th card of the pack, n in 0..51, as <<rank, suit>>.
Card(n) == <<RANKS_STRING[(n % Len(RANKS_STRING)) + 1],
             SUITS[(n \div Len(RANKS_STRING)) + 1]>>

PackSize == Len(RANKS_STRING) * Len(SUITS)

\* Steps coprime to 52: position k of a deck holds card (step * k + shift) mod 52.
DeckSteps == {1, 3, 5, 7, 9, 11}

\* The deck string get_random_deck returns: 104 characters, two per card.
Deck(step, shift) ==
    [i \in 1..(2 * PackSize) |->
        Card((step * ((i - 1) \div 2) + shift) % PackSize)[((i - 1) % 2) + 1]]

\* First offset of hand p in the deck string.
HandStart(p) == p * 2

NextOffsetWrong(i) == i + NUM8 + 2

\* The offset of the next card of the same hand.
NextOffset(i) == i + NUM8

EmptyHand == [count |-> 0, cards |-> <<>>]

\* The card pair at C offset i of the deck string.
CardAt(deckStr, i) == <<deckStr[i + 1], deckStr[i + 2]>>

\* The cards of a hand as a set.
HandSet(hand) == {hand.cards[k] : k \in 1..Len(hand.cards)}

RECURSIVE HandLoop(_, _, _)
\* The inner loop for one hand from C offset i on: while i < 104 and
\* count < 26, take the rank at deckStr[i] and the suit at deckStr[i + 1].
HandLoop(deckStr, hand, i) ==
    IF i < NUM104 /\ hand.count < NUM26
    THEN HandLoop(deckStr,
                  [count |-> hand.count + 1,
                   cards |-> Append(hand.cards, <<deckStr[i + 1], deckStr[i + 2]>>)],
                  NextOffset(i))
    ELSE hand

build_hands_from_deck(deckStr) ==
    [p \in Seats |-> HandLoop(deckStr, EmptyHand, HandStart(p))]

InitDeal ==
    /\ InitServer(MAX_PLAYERS, MaxClients)
    /\ \E step \in DeckSteps, shift \in 0..MaxRotation :
          call = [fn |-> "deal", deckStr |-> Deck(step, shift),
                  hands |-> [p \in Seats |-> EmptyHand], done |-> FALSE]

BuildHandsCall ==
    /\ call.fn = "deal"
    /\ ~call.done
    /\ call' = [call EXCEPT !.hands = build_hands_from_deck(call.deckStr),
                            !.done = TRUE]
    /\ UNCHANGED <<maxConns, activeClients, dpc, stats, games, pending, workers,
                   open, peerClosed, slotRel, orphanRel, crashed, refs>>

NextDeal == BuildHandsCall

SpecDeal == InitDeal /\ [][NextDeal]_vars

(* ======================================================================= *)
(* Cards, hands and the winner of a trick                                  *)
(* ======================================================================= *)

RANK_LOWEST_VALUE == 2
INVALID_RANK_VALUE == -1
MAX_CARDS == 13

RECURSIVE IndexOf(_, _, _)
\* strchr: the first position i or later at which seq holds x, 0 if none.
IndexOf(seq, x, i) ==
    IF i > Len(seq) THEN 0
    ELSE IF seq[i] = x THEN i
    ELSE IndexOf(seq, x, i + 1)

rank_value(rankChar) ==
    LET p == IndexOf(RANKS_STRING, rankChar, 1)
    IN IF p = 0 THEN INVALID_RANK_VALUE ELSE RANK_LOWEST_VALUE + (p - 1)

is_valid_rank(rankChar) == rank_value(rankChar) # INVALID_RANK_VALUE

is_valid_suit(suitChar) ==
    suitChar = "S" \/ suitChar = "C" \/ suitChar = "D" \/ suitChar = "H"

\* A line (newline stripped) is a card token when it has exactly two
\* characters, a valid rank and a valid suit.
parse_card_token(line) ==
    /\ Len(line) = 2
    /\ is_valid_rank(line[1])
    /\ is_valid_suit(line[2])

HasSuitNever(hand, suitChar) == FALSE

has_suit_in_hand(hand, suitChar) ==
    \E i \in 1..hand.count : hand.cards[i][2] = suitChar

RECURSIVE FindCard(_, _, _, _)
\* The loop of remove_card_from_hand: first index from i on holding the card, 0 if none.
FindCard(hand, rankChar, suitChar, i) ==
    IF i > hand.count THEN 0
    ELSE IF hand.cards[i] = <<rankChar, suitChar>> THEN i
    ELSE FindCard(hand, rankChar, suitChar, i + 1)

RemoveKeepsCard(hand, rankChar, suitChar) ==
    [ok |-> FindCard(hand, rankChar, suitChar, 1) # 0, hand |-> hand]

\* remove_card_from_hand: the last card takes the place of the removed one.
remove_card_from_hand(hand, rankChar, suitChar) ==
    LET i == FindCard(hand, rankChar, suitChar, 1)
        last == hand.count
    IN IF i = 0
       THEN [ok |-> FALSE, hand |-> hand]
       ELSE [ok |-> TRUE,
             hand |-> [count |-> hand.count - 1,
                       cards |-> SubSeq([hand.cards EXCEPT ![i] = hand.cards[last]],
                                        1, last - 1)]]

RECURSIVE WinLoop(_, _, _, _, _)
\* The loop of winning_seat_in_trick from index i on.
WinLoop(leadSuit, plays, i, winner, bestVal) ==
    IF i >= MAX_PLAYERS THEN (IF bestVal < 0 THEN 0 ELSE winner)
    ELSE IF plays[i + 1][2] # leadSuit THEN WinLoop(leadSuit, plays, i + 1, winner, bestVal)
    ELSE LET v == rank_value(plays[i + 1][1])
         IN IF v > bestVal
            THEN WinLoop(leadSuit, plays, i + 1, i, v)
            ELSE WinLoop(leadSuit, plays, i + 1, winner, bestVal)

WinnerAlwaysLeader(leadSuit, plays) == 0

\* The offset from the leader of the winning play.
winning_seat_in_trick(leadSuit, plays) == WinLoop(leadSuit, plays, 0, 0, -1)

SeatToTeamSwapped(seat) == IF seat % 2 = 0 THEN 1 ELSE 0

seat_to_team(seat) == IF seat % 2 = 0 THEN 0 ELSE 1

(* ======================================================================= *)
(* play_tricks on its own: one action per line read from a seat            *)
(* ======================================================================= *)

\* Lines the server writes, one tuple per line.
LeadPrompt == <<"L">>
PlayPrompt(leadSuit) == <<"P", leadSuit>>
InvalidLine == <<"I">>
AcceptLine == <<"A">>
GameOverLine == <<"O">>

\* The seat label "P1".."P4" as character codes.
SeatLabel(seat) == <<80, 49 + seat>>

\* The name a seat is announced by: its player name, or its label when the
\* seat has no name.
DisplayName(game, seat) ==
    IF game.playerNames[seat] # NULL THEN game.playerNames[seat] ELSE SeatLabel(seat)

PlaysLine(game, seat, rankChar, suitChar) ==
    <<"M", DisplayName(game, seat), "plays", rankChar, suitChar>>

WonLine(winnerSeat) == <<"M", SeatLabel(winnerSeat), "won">>

DisconnectLine(game, seat) == <<"M", DisplayName(game, seat), "disconnected early">>

FinalScoreAlwaysDraw(team1Tricks, team2Tricks) == <<"M", "Game result: Draw", 0>>

FinalScoreAlwaysTeam1(team1Tricks, team2Tricks) ==
    <<"M", "Winner is Team 1", team1Tricks>>

\* announce_final_score
FinalScoreLine(team1Tricks, team2Tricks) ==
    IF team1Tricks > team2Tricks THEN <<"M", "Winner is Team 1", team1Tricks>>
    ELSE IF team2Tricks > team1Tricks THEN <<"M", "Winner is Team 2", team2Tricks>>
    ELSE <<"M", "Game result: Draw", 0>>

\* send_lead_or_play_prompt
PromptLines(isLeader, leadSuit) ==
    IF isLeader THEN <<LeadPrompt>> ELSE <<PlayPrompt(leadSuit)>>

InvalidLinesAlwaysI(isLeader, leadSuit) ==
    <<InvalidLine>> \o PromptLines(isLeader, leadSuit)

\* send_invalid_and_reprompt
InvalidLines(isLeader, leadSuit) ==
    IF isLeader THEN <<LeadPrompt>> ELSE <<InvalidLine, PlayPrompt(leadSuit)>>

NoSuit == ""
NoPlays == [k \in 1..MAX_PLAYERS |-> <<"", "">>]
Silence == [j \in Seats |-> <<>>]

\* The four players of the trick scenario, seated in name order: A, B, C, D.
TrickGame == FullGame([s \in Seats |-> <<65 + s>>])

TurnSeatReversed(c) == (c.leaderSeat + MAX_PLAYERS - c.offset) % MAX_PLAYERS

\* The seat whose line is read next.
TurnSeat(c) == (c.leaderSeat + c.offset) % MAX_PLAYERS

\* The state of play_tricks on entry to the first read: hands built from the
\* deck, leader seat 0, the lead prompt sent to seat 0.
TrickStart(deckStr, pick) ==
    [fn |-> "tricks", state |-> "reading", pick |-> pick, game |-> TrickGame,
     hands |-> build_hands_from_deck(deckStr),
     plays |-> NoPlays, leadSuit |-> NoSuit, leaderSeat |-> 0, offset |-> 0,
     trick |-> 0, teamTricks |-> [t \in 0..1 |-> 0],
     out |-> [j \in Seats |-> IF j = 0 THEN PromptLines(TRUE, NoSuit) ELSE <<>>],
     accepted |-> {}, wins |-> [j \in Seats |-> 0], prev |-> NoPlays]

RejectSkipsTurn(c) ==
    [c EXCEPT !.offset = (c.offset + 1) % MAX_PLAYERS,
              !.out = [Silence EXCEPT ![TurnSeat(c)] = InvalidLines(c.offset = 0, c.leadSuit)]]

\* A rejected line: send_invalid_and_reprompt to the same seat, then the
\* loop of read_and_apply_valid_card reads again.
Reject(c) ==
    [c EXCEPT !.out = [Silence EXCEPT ![TurnSeat(c)] = InvalidLines(c.offset = 0, c.leadSuit)]]

FinishTrickKeepsLeader(c, lines) ==
    LET winOffset == winning_seat_in_trick(c.leadSuit, c.plays)
        winnerSeat == (c.leaderSeat + winOffset) % MAX_PLAYERS
        tally == [c.teamTricks EXCEPT ![seat_to_team(winnerSeat)] = @ + 1]
        won == [j \in Seats |-> lines[j] \o <<WonLine(winnerSeat)>>]
        base == [c EXCEPT !.teamTricks = tally,
                          !.trick = c.trick + 1, !.wins[winnerSeat] = @ + 1,
                          !.prev = c.plays]
    IN IF c.trick + 1 < MAX_TRICK
       THEN [base EXCEPT !.plays = NoPlays, !.leadSuit = NoSuit, !.offset = 0,
                         !.out = [won EXCEPT ![c.leaderSeat] = @ \o PromptLines(TRUE, NoSuit)]]
       ELSE [base EXCEPT !.state = "completed",
                         !.out = [j \in Seats |->
                                    won[j] \o <<FinalScoreLine(tally[0], tally[1]), GameOverLine>>]]

\* play_single_trick after the fourth play and the rest of the loop body of
\* play_tricks: winner, tally, next leader; after trick 13 the final score
\* and the game-over line.  c already holds the four plays.
FinishTrick(c, lines) ==
    LET winOffset == winning_seat_in_trick(c.leadSuit, c.plays)
        winnerSeat == (c.leaderSeat + winOffset) % MAX_PLAYERS
        tally == [c.teamTricks EXCEPT ![seat_to_team(winnerSeat)] = @ + 1]
        won == [j \in Seats |-> lines[j] \o <<WonLine(winnerSeat)>>]
        base == [c EXCEPT !.teamTricks = tally, !.leaderSeat = winnerSeat,
                          !.trick = c.trick + 1, !.wins[winnerSeat] = @ + 1,
                          !.prev = c.plays]
    IN IF c.trick + 1 < MAX_TRICK
       THEN [base EXCEPT !.plays = NoPlays, !.leadSuit = NoSuit, !.offset = 0,
                         !.out = [won EXCEPT ![winnerSeat] = @ \o PromptLines(TRUE, NoSuit)]]
       ELSE [base EXCEPT !.state = "completed",
                         !.out = [j \in Seats |->
                                    won[j] \o <<FinalScoreLine(tally[0], tally[1]), GameOverLine>>]]

Accept4KeepsLeadSuit(c, seat, rankChar, suitChar, hand) ==
    LET lead == c.leadSuit
        lines == [j \in Seats |-> IF j = seat THEN <<AcceptLine>>
                                  ELSE <<PlaysLine(c.game, seat, rankChar, suitChar)>>]
        played == [c EXCEPT !.hands[seat] = hand,
                            !.plays[c.offset + 1] = <<rankChar, suitChar>>,
                            !.accepted = @ \cup {<<rankChar, suitChar>>}]
        nextSeat == (c.leaderSeat + c.offset + 1) % MAX_PLAYERS
    IN IF c.offset + 1 < MAX_PLAYERS
       THEN [played EXCEPT !.offset = c.offset + 1,
                           !.out = [lines EXCEPT ![nextSeat] = @ \o PromptLines(FALSE, lead)]]
       ELSE FinishTrick(played, lines)

Accept4EchoesPlay(c, seat, rankChar, suitChar, hand) ==
    LET isLeader == c.offset = 0
        lead == IF isLeader THEN suitChar ELSE c.leadSuit
        lines == [j \in Seats |-> IF j = seat
                                  THEN <<AcceptLine, PlaysLine(c.game, seat, rankChar, suitChar)>>
                                  ELSE <<PlaysLine(c.game, seat, rankChar, suitChar)>>]
        played == [c EXCEPT !.hands[seat] = hand, !.leadSuit = lead,
                            !.plays[c.offset + 1] = <<rankChar, suitChar>>,
                            !.accepted = @ \cup {<<rankChar, suitChar>>}]
        nextSeat == (c.leaderSeat + c.offset + 1) % MAX_PLAYERS
    IN IF c.offset + 1 < MAX_PLAYERS
       THEN [played EXCEPT !.offset = c.offset + 1,
                           !.out = [lines EXCEPT ![nextSeat] = @ \o PromptLines(FALSE, lead)]]
       ELSE FinishTrick(played, lines)

\* An accepted card: lines 1282-1288, then the next prompt or the end of the trick.
Accept4(c, seat, rankChar, suitChar, hand) ==
    LET isLeader == c.offset = 0
        lead == IF isLeader THEN suitChar ELSE c.leadSuit
        lines == [j \in Seats |-> IF j = seat THEN <<AcceptLine>>
                                  ELSE <<PlaysLine(c.game, seat, rankChar, suitChar)>>]
        played == [c EXCEPT !.hands[seat] = hand, !.leadSuit = lead,
                            !.plays[c.offset + 1] = <<rankChar, suitChar>>,
                            !.accepted = @ \cup {<<rankChar, suitChar>>}]
        nextSeat == (c.leaderSeat + c.offset + 1) % MAX_PLAYERS
    IN IF c.offset + 1 < MAX_PLAYERS
       THEN [played EXCEPT !.offset = c.offset + 1,
                           !.out = [lines EXCEPT ![nextSeat] = @ \o PromptLines(FALSE, lead)]]
       ELSE FinishTrick(played, lines)

\* One pass of the loop of read_and_apply_valid_card on the line just read.
ApplyLine(c, line) ==
    LET seat == TurnSeat(c)
        isLeader == c.offset = 0
        hand == c.hands[seat]
    IN IF ~parse_card_token(line) THEN Reject(c)
       ELSE IF ~isLeader /\ has_suit_in_hand(hand, c.leadSuit) /\ line[2] # c.leadSuit
            THEN Reject(c)
       ELSE LET removed == remove_card_from_hand(hand, line[1], line[2])
            IN IF ~removed.ok THEN Reject(c)
               ELSE Accept4(c, seat, line[1], line[2], removed.hand)

DisconnectToAll(game, seat) ==
    [j \in Seats |-> <<DisconnectLine(game, seat), GameOverLine>>]

\* handle_disconnect_early: the notice and the game-over line to every seat
\* but the dropped one.
DisconnectNotices(game, seat) ==
    [j \in Seats |-> IF j = seat THEN <<>>
                     ELSE <<DisconnectLine(game, seat), GameOverLine>>]

\* Lines that are no card token.
MalformedLines == { <<>>, <<"2">>, <<"2", "S", "S">>, <<"X", "S">>, <<"2", "X">>,
                    <<"s", "2">> }

AllCards == {Card(n) : n \in 0..(PackSize - 1)}

\* The cards of the hand that have the given suit, in hand order.
CardsOfSuit(hand, suitChar) ==
    SelectSeq(hand.cards, LAMBDA cd : cd[2] = suitChar)

\* First or last element of a non-empty sequence, by the peer's habit.
Choice(pick, cands) == IF pick = "first" THEN cands[1] ELSE cands[Len(cands)]

\* The card an honest peer sends: it follows suit when it can, and takes the
\* first or the last of its candidates in hand order.
PickedCard(c) ==
    LET hand == c.hands[TurnSeat(c)]
        follow == IF c.offset = 0 THEN <<>> ELSE CardsOfSuit(hand, c.leadSuit)
    IN Choice(c.pick, IF follow # <<>> THEN follow ELSE hand.cards)

\* The card a peer sends when it ignores the led suit: the first or last
\* card it holds of another suit, if it holds one.
OffSuitCards(c) ==
    LET other == SelectSeq(c.hands[TurnSeat(c)].cards, LAMBDA cd : cd[2] # c.leadSuit)
    IN IF c.offset = 0 \/ other = <<>> THEN {} ELSE {Choice(c.pick, other)}

\* Cards the seat in turn does not hold: one from each other hand, the plays
\* of the trick so far and the plays of the trick before.
NotHeldCards(c) ==
    {Choice(c.pick, c.hands[j].cards) : j \in {k \in Seats \ {TurnSeat(c)} : c.hands[k].count > 0}}
    \cup {c.plays[k] : k \in 1..c.offset}
    \cup {c.prev[k] : k \in {m \in 1..MAX_PLAYERS : c.trick > 0}}

\* What the peer of the seat in turn may send: the honest card, a card of
\* another suit than the led one, a card it does not hold, or a line that is
\* no card token.
SentLines(c) ==
    {PickedCard(c)} \cup OffSuitCards(c) \cup NotHeldCards(c) \cup MalformedLines

InitTricks ==
    /\ InitServer(MAX_PLAYERS, MaxClients)
    /\ \E step \in DeckSteps, shift \in 0..MaxTrickShift, pick \in {"first", "last"} :
          call = TrickStart(Deck(step, shift), pick)

ReadLineCountsEachPlay ==
    /\ call.fn = "tricks"
    /\ call.state = "reading"
    /\ \E line \in SentLines(call) :
          /\ call' = ApplyLine(call, line)
          /\ stats' = [stats EXCEPT !.totalTricksPlayed =
                          IF call'.accepted # call.accepted THEN @ + 1 ELSE @]
    /\ UNCHANGED <<maxConns, activeClients, dpc, games, pending, workers,
                   open, peerClosed, slotRel, orphanRel, crashed, refs>>

\* A line arrives from the seat in turn.
ReadLine ==
    /\ call.fn = "tricks"
    /\ call.state = "reading"
    /\ \E line \in SentLines(call) :
          /\ call' = ApplyLine(call, line)
          /\ stats' = [stats EXCEPT !.totalTricksPlayed =
                          IF call'.trick > call.trick THEN @ + 1 ELSE @]
    /\ UNCHANGED <<maxConns, activeClients, dpc, games, pending, workers,
                   open, peerClosed, slotRel, orphanRel, crashed, refs>>

\* read_line_alloc returns NULL for the seat in turn: handle_disconnect_early,
\* and play_single_trick and play_tricks return 1.
ReadFails ==
    /\ call.fn = "tricks"
    /\ call.state = "reading"
    /\ call' = [call EXCEPT !.state = "terminated",
                            !.out = DisconnectNotices(call.game, TurnSeat(call))]
    /\ stats' = [stats EXCEPT !.gamesTerminated = @ + 1]
    /\ UNCHANGED <<maxConns, activeClients, dpc, games, pending, workers,
                   open, peerClosed, slotRel, orphanRel, crashed, refs>>

NextTricks ==
    \/ ReadLine
    \/ ReadFails

SpecTricks == InitTricks /\ [][NextTricks]_vars

(* ======================================================================= *)
(* One game from the first prompt to the end of start_game                 *)
(* ======================================================================= *)

\* The connection whose worker got seat index 3 and referees the game.
RefereeConn == MAX_PLAYERS

\* The server on entry to play_tricks: four connections admitted under
\* maxconns 4 and seated in join order, the Game unlinked, the fourth worker
\* past gamesRunning++, the hands built from the deck.
InitGame ==
    /\ maxConns = MAX_PLAYERS
    /\ activeClients = MAX_PLAYERS
    /\ dpc = "acquire"
    /\ stats = [ZeroStats EXCEPT !.totalPlayersConnected = MAX_PLAYERS,
                                 !.gamesRunning = 1,
                                 !.activeClientSockets = MAX_PLAYERS]
    /\ games = [a \in Addrs |-> IF a = 1 THEN TrickGame ELSE NoGame]
    /\ pending = <<>>
    /\ workers = [c \in 1..MaxClients |->
                    IF c < RefereeConn THEN [IdleWorker EXCEPT !.pc = "seated"]
                    ELSE IF c = RefereeConn
                    THEN [IdleWorker EXCEPT !.pc = "playing", !.game = 1,
                                            !.seatIndex = MAX_PLAYERS - 1]
                    ELSE IdleWorker]
    /\ open = 1..MAX_PLAYERS
    /\ peerClosed = {}
    /\ slotRel = [c \in 1..MaxClients |-> 0]
    /\ orphanRel = 0
    /\ crashed = FALSE
    /\ refs = [a \in Addrs |-> IF a = 1 THEN 1 ELSE 0]
    /\ \E step \in DeckSteps, shift \in 0..MaxTrickShift, pick \in {"first", "last"} :
          call = TrickStart(Deck(step, shift), pick)

\* Line 1734: play_tricks returns 0 after the thirteenth trick and 1 after a
\* failed read.
PlayTricksReturns(c) ==
    /\ ~crashed
    /\ workers[c].pc = "playing"
    /\ call.fn = "tricks"
    /\ call.state \in {"completed", "terminated"}
    /\ workers' = [workers EXCEPT ![c].pc = "ended", ![c].trick = call.trick,
                                  ![c].ended = IF call.state = "completed" THEN 0 ELSE 1]
    /\ UNCHANGED <<maxConns, activeClients, dpc, stats, games, pending, open, peerClosed,
                   slotRel, orphanRel, crashed, refs, call>>

\* The peer in turn sends a card that is accepted, or closes.
PeerCommits ==
    \/ ReadFails
    \/ /\ ReadLine
       /\ call'.out[TurnSeat(call)] # <<>>
       /\ call'.out[TurnSeat(call)][1] = AcceptLine

\* A step of the thread that runs start_game.
RefereeStep ==
    \/ PlayTricksReturns(RefereeConn)
    \/ EndGame(RefereeConn)
    \/ ReleaseConnSlot(RefereeConn)

NextGame ==
    \/ ReadLine
    \/ ReadFails
    \/ PlayTricksReturns(RefereeConn)
    \/ EndGame(RefereeConn)
    \/ ReleaseConnSlot(RefereeConn)

\* The referee thread is scheduled fairly, and a prompted peer does not
\* answer with rejected lines for ever.
SpecGame == InitGame /\ [][NextGame]_vars /\ WF_vars(RefereeStep) /\ WF_vars(PeerCommits)

(* ======================================================================= *)
(* The client: handle_message of ratsclient on the lines of a server       *)
(* ======================================================================= *)

\* get_rank_value of the client: 2..14, 0 for any other character.
get_rank_value(rank) ==
    LET i == IndexOf(RANKS_STRING, rank, 1)
    IN IF i = 0 THEN 0 ELSE i + 1

\* get_suit_value: S, C, D, H are 0..3, any other character is 4.
get_suit_value(suit) ==
    IF suit = "S" THEN 0
    ELSE IF suit = "C" THEN 1
    ELSE IF suit = "D" THEN 2
    ELSE IF suit = "H" THEN 3
    ELSE 4

\* compare_cards: by suit value, then by rank value, larger ranks first.
compare_cards(a, b) ==
    IF get_suit_value(a[2]) # get_suit_value(b[2])
    THEN get_suit_value(a[2]) - get_suit_value(b[2])
    ELSE get_rank_value(b[1]) - get_rank_value(a[1])

RECURSIVE InsertCard(_, _)
\* The card put into a sequence ordered by compare_cards.
InsertCard(sorted, cd) ==
    IF sorted = <<>> THEN <<cd>>
    ELSE IF compare_cards(cd, Head(sorted)) <= 0 THEN <<cd>> \o sorted
    ELSE <<Head(sorted)>> \o InsertCard(Tail(sorted), cd)

RECURSIVE SortCards(_)
\* qsort(hand->cards, hand->count, CARD_LEN, compare_cards)
SortCards(cards) ==
    IF cards = <<>> THEN <<>> ELSE InsertCard(SortCards(Tail(cards)), Head(cards))

RECURSIVE PairUp(_, _)
\* The loop of parse_hand_message: spaces skipped, two characters per card
\* from position i on, up to the newline or the end of the string.
PairUp(message, i) ==
    IF i + 1 > Len(message) THEN <<>>
    ELSE IF message[i] = " " THEN PairUp(message, i + 1)
    ELSE IF message[i] = "\n" THEN <<>>
    ELSE << <<message[i], message[i + 1]>> >> \o PairUp(message, i + 2)

\* The Hand of the client after memset: no card, nothing sent.
NoHand == [count |-> 0, cards |-> <<>>, lastSend |-> <<>>]

\* parse_hand_message: the cards after the tag, sorted.
parse_hand_message(message, hand) ==
    LET cards == SortCards(PairUp(message, 2))
    IN [hand EXCEPT !.count = Len(cards), !.cards = cards]

card_in_hand(hand, r, s) ==
    \E i \in 1..hand.count : hand.cards[i] = <<r, s>>

RECURSIVE FindEither(_, _, _)
\* The search of the client's remove_card_from_hand: the first card equal to
\* rs in either order of its two characters, 0 if none.
FindEither(hand, rs, i) ==
    IF i > hand.count THEN 0
    ELSE IF hand.cards[i] = rs \/ hand.cards[i] = <<rs[2], rs[1]>> THEN i
    ELSE FindEither(hand, rs, i + 1)

\* remove_card_from_hand of the client: the cards behind the removed one
\* shift left.
client_remove_card_from_hand(hand, rs) ==
    LET i == FindEither(hand, rs, 1)
    IN IF i = 0 THEN hand
       ELSE [hand EXCEPT !.count = hand.count - 1,
                         !.cards = SubSeq(hand.cards, 1, i - 1)
                                   \o SubSeq(hand.cards, i + 1, hand.count)]

\* handle_accept: the card sent last leaves the hand.
handle_accept(hand) ==
    IF hand.lastSend # <<>>
    THEN [client_remove_card_from_hand(hand, hand.lastSend) EXCEPT !.lastSend = <<>>]
    ELSE hand

\* What the user may type at a prompt: a card of the hand, a card of another
\* hand, or a line that is no card.
TypedLines(hand) ==
    HandSet(hand) \cup {<<"2", "S">>, <<"A", "H">>} \cup MalformedLines

\* The tests of handle_lead on a typed line.
LeadOk(hand, buf) ==
    /\ Len(buf) = 2
    /\ get_rank_value(buf[1]) # 0
    /\ get_suit_value(buf[2]) <= 3
    /\ card_in_hand(hand, buf[1], buf[2])

\* The tests of handle_play on a typed line.
PlayOk(hand, leadSuit, buf) ==
    /\ LeadOk(hand, buf)
    /\ LET haveLead == \E i \in 1..hand.count : hand.cards[i][2] = leadSuit
       IN ~(haveLead /\ buf[2] # leadSuit)

\* The client process: its Hand, whether and how it has exited, and the line
\* it sent to the server in its last step.
ClientStart == [fn |-> "client", hand |-> NoHand, exited |-> FALSE, status |-> 0,
                sent |-> <<>>, last |-> ""]

Exit(cl, code) == [cl EXCEPT !.exited = TRUE, !.status = code, !.sent = <<>>]

\* handle_lead and handle_play: the loop ends with the first typed line that
\* passes the tests, which is sent and remembered, or with the end of stdin
\* (exit 17).
Prompted(cl, passing) ==
    {[cl EXCEPT !.hand.lastSend = buf, !.sent = buf] : buf \in passing}
    \cup {Exit(cl, 17)}

handle_lead(cl) ==
    Prompted(cl, {buf \in TypedLines(cl.hand) : LeadOk(cl.hand, buf)})

handle_play(cl, leadSuit) ==
    Prompted(cl, {buf \in TypedLines(cl.hand) : PlayOk(cl.hand, leadSuit, buf)})

\* handle_message: the states the client can be in after the line.
handle_message(cl, message) ==
    LET quiet == [cl EXCEPT !.sent = <<>>]
        tag == message[1]
    IN IF tag = "M" THEN {quiet}
       ELSE IF tag = "A" THEN {[quiet EXCEPT !.hand = handle_accept(cl.hand)]}
       ELSE IF tag = "L" THEN handle_lead(quiet)
       ELSE IF tag = "H"
            THEN IF cl.hand.count > 0 THEN {Exit(cl, 7)}
                 ELSE {[quiet EXCEPT !.hand = parse_hand_message(message, cl.hand)]}
       ELSE IF tag = "P"
            THEN IF Len(message) < 2 \/ ~is_valid_suit(message[2]) THEN {Exit(cl, 7)}
                 ELSE handle_play(quiet, message[2])
       ELSE IF tag = "O" THEN {Exit(cl, 0)}
       ELSE {Exit(cl, 7)}

\* The H line of a seat: the tag and the first MaxClientHand cards the
\* server deals to that seat, as characters.
RECURSIVE Flatten(_)
Flatten(cards) ==
    IF cards = <<>> THEN <<>> ELSE Head(cards) \o Flatten(Tail(cards))

HandLine(deckStr, p) ==
    <<"H">> \o Flatten(SubSeq(build_hands_from_deck(deckStr)[p].cards, 1, MaxClientHand))

\* The bytes of hand[] behind the 26 that deal_and_send_hands fills: the
\* array is not initialised and "%.*s" prints up to MAX_HAND = 52 characters
\* of it, stopping at the first NUL.  Nothing, one byte, or a pair of bytes.
GarbageTails == UNION {[1..n -> {"K", "S"}] : n \in 0..MaxGarbage}

\* The line deal_and_send_hands writes to seat p: the tag, the 13 cards of
\* the seat, whatever follows them in hand[], and the newline.
HandMessage(deckStr, p, tail) ==
    <<"H">> \o Flatten(build_hands_from_deck(deckStr)[p].cards) \o tail \o <<"\n">>

\* parse_hand_message on a line of the server.  cards[] has room for
\* MAX_CARDS cards and the loop does not test count: a further card is
\* written over count and lastSend, after which the client may crash or go
\* on with any count of the cards it stored.
ParseHandOutcomes(message) ==
    LET pairs == PairUp(message, 2)
    IN IF Len(pairs) <= MAX_CARDS
       THEN {[state |-> "parsed", hand |-> parse_hand_message(message, NoHand)]}
       ELSE {[state |-> "crashed", hand |-> NoHand]}
            \cup {[state |-> "parsed",
                   hand |-> [NoHand EXCEPT !.count = n,
                                           !.cards = SortCards(SubSeq(pairs, 1, n))]] :
                     n \in {0, MAX_CARDS}}

InitHand ==
    /\ InitServer(MAX_PLAYERS, MaxClients)
    /\ \E step \in DeckSteps, shift \in 0..MaxTrickShift, p \in Seats, tail \in GarbageTails :
          call = [fn |-> "hand", state |-> "received", seat |-> p,
                  dealt |-> build_hands_from_deck(Deck(step, shift))[p],
                  message |-> HandMessage(Deck(step, shift), p, tail),
                  hand |-> NoHand]

\* handle_message, case 'H', on the first H line of a game.
ParseHand ==
    /\ call.fn = "hand"
    /\ call.state = "received"
    /\ \E r \in ParseHandOutcomes(call.message) :
          call' = [call EXCEPT !.state = r.state, !.hand = r.hand]
    /\ UNCHANGED <<maxConns, activeClients, dpc, stats, games, pending, workers,
                   open, peerClosed, slotRel, orphanRel, crashed, refs>>

NextHand == ParseHand

SpecHand == InitHand /\ [][NextHand]_vars

(* ======================================================================= *)
(* Four clients at one table: ratsclient against play_tricks               *)
(* ======================================================================= *)

\* A line that asks the client for a card.
IsPromptLine(line) == line # <<>> /\ line[1] \in {"L", "P"}

\* The client after a line that is no prompt: handle_message has one outcome.
Receive(cl, line) == CHOOSE r \in handle_message(cl, line) : TRUE

RECURSIVE ReceiveAll(_, _)
\* The client after the lines written to it in one step of the server, in
\* order.  A prompt is answered in a later step, when the user types; a
\* client that has exited reads nothing.
ReceiveAll(cl, lines) ==
    IF lines = <<>> \/ cl.exited THEN cl
    ELSE IF IsPromptLine(Head(lines)) THEN ReceiveAll(cl, Tail(lines))
    ELSE ReceiveAll(Receive(cl, Head(lines)), Tail(lines))

\* The client of seat p after the H line of its seat.
ClientsAfterDeal(deckStr, p, tail) ==
    {[ClientStart EXCEPT !.hand = r.hand, !.exited = (r.state = "crashed"),
                         !.status = IF r.state = "crashed" THEN 139 ELSE 0] :
        r \in ParseHandOutcomes(HandMessage(deckStr, p, tail))}

\* The stale bytes of hand[] are the same for the four H lines of a deal.
InitTable ==
    /\ InitServer(MAX_PLAYERS, MaxClients)
    /\ \E step \in DeckSteps, pick \in {"first", "last"},
          tail \in {t \in GarbageTails : Len(t) < MaxGarbage} :
          \E cls \in [Seats -> UNION {ClientsAfterDeal(Deck(step, 0), p, tail) : p \in Seats}] :
             /\ \A p \in Seats : cls[p] \in ClientsAfterDeal(Deck(step, 0), p, tail)
             /\ call = [fn |-> "table", srv |-> TrickStart(Deck(step, 0), pick),
                        stale |-> tail, clients |-> cls]

\* The prompt the seat in turn was sent last.
PromptOf(srv) ==
    LET lines == srv.out[TurnSeat(srv)] IN lines[Len(lines)]

\* The card the user settles on: the first or the last card of the displayed
\* hand that the client lets through at this prompt, by the user's habit.
UserCard(pick, hand, prompt) ==
    LET passing == SelectSeq(hand.cards,
                       LAMBDA cd : IF prompt[1] = "L" THEN LeadOk(hand, cd)
                                   ELSE PlayOk(hand, prompt[2], cd))
    IN IF passing = <<>> THEN <<>> ELSE Choice(pick, passing)

\* The user of the seat in turn types until a line passes the client's
\* tests; the client sends it, the server reads it and answers, and every
\* client reads what was written to it.
ClientPlays ==
    /\ call.fn = "table"
    /\ call.srv.state = "reading"
    /\ ~call.clients[TurnSeat(call.srv)].exited
    /\ \E cl \in handle_message(call.clients[TurnSeat(call.srv)], PromptOf(call.srv)) :
          /\ ~cl.exited
          /\ cl.sent = UserCard(call.srv.pick, call.clients[TurnSeat(call.srv)].hand,
                                PromptOf(call.srv))
          /\ LET srv == ApplyLine(call.srv, cl.sent)
                 mid == [call.clients EXCEPT ![TurnSeat(call.srv)] = cl]
             IN /\ call' = [call EXCEPT !.srv = srv,
                               !.clients = [j \in Seats |-> ReceiveAll(mid[j], srv.out[j])]]
                /\ stats' = [stats EXCEPT !.totalTricksPlayed =
                                IF srv.trick > call.srv.trick THEN @ + 1 ELSE @]
    /\ UNCHANGED <<maxConns, activeClients, dpc, games, pending, workers,
                   open, peerClosed, slotRel, orphanRel, crashed, refs>>

\* The client of the seat in turn has exited, or exits at the prompt because
\* its user quits (exit 17): the server's read fails and the other clients
\* read the notice and the game-over line.
ClientGone ==
    /\ call.fn = "table"
    /\ call.srv.state = "reading"
    /\ LET seat == TurnSeat(call.srv)
           notices == DisconnectNotices(call.srv.game, seat)
           mid == [call.clients EXCEPT ![seat] = IF @.exited THEN @ ELSE Exit(@, 17)]
       IN call' = [call EXCEPT !.srv = [call.srv EXCEPT !.state = "terminated",
                                                      !.out = notices],
                               !.clients = [j \in Seats |-> ReceiveAll(mid[j], notices[j])]]
    /\ stats' = [stats EXCEPT !.gamesTerminated = @ + 1]
    /\ UNCHANGED <<maxConns, activeClients, dpc, games, pending, workers,
                   open, peerClosed, slotRel, orphanRel, crashed, refs>>

NextTable ==
    \/ ClientPlays
    \/ ClientGone

SpecTable == InitTable /\ [][NextTable]_vars

\* The tags of the wire protocol.
ProtocolTags == {"M", "H", "L", "P", "I", "A", "O"}

\* Lines a server may send: the protocol lines, a prompt without a suit or
\* with a wrong one, and a line with an unknown tag.
ServerLines ==
    {<<"M", "text">>, <<"L">>, <<"I">>, <<"A">>, <<"O">>, <<"X">>, <<"P">>, <<"P", "X">>}
    \cup {<<"P", suit>> : suit \in {"S", "C", "D", "H"}}
    \cup {HandLine(Deck(step, 0), p) : step \in {1, 5}, p \in Seats}

InitClient ==
    /\ InitServer(MAX_PLAYERS, MaxClients)
    /\ call = ClientStart

\* fgets(serverIn) returns a line and handle_message runs on it.
ClientReceive ==
    /\ call.fn = "client"
    /\ ~call.exited
    /\ \E message \in ServerLines :
          \E cl \in handle_message(call, message) : call' = [cl EXCEPT !.last = message[1]]
    /\ UNCHANGED <<maxConns, activeClients, dpc, stats, games, pending, workers,
                   open, peerClosed, slotRel, orphanRel, crashed, refs>>

\* fgets(serverIn) returns NULL: the server closed the connection.
ServerCloses ==
    /\ call.fn = "client"
    /\ ~call.exited
    /\ call' = [Exit(call, 7) EXCEPT !.last = ""]
    /\ UNCHANGED <<maxConns, activeClients, dpc, stats, games, pending, workers,
                   open, peerClosed, slotRel, orphanRel, crashed, refs>>

NextClient ==
    \/ ClientReceive
    \/ ServerCloses

SpecClient == InitClient /\ [][NextClient]_vars

(* ======================================================================= *)
(* Claims about the pending registry and the admission slots               *)
(* ======================================================================= *)

\* C1: with maxConns > 0, the connections the dispatcher has accepted and the
\* server has not closed number at most maxConns.
C1_OpenConnectionsAtMostMaxConns ==
    maxConns > 0 => Cardinality(open) <= maxConns

Linked == {pending[i] : i \in 1..Len(pending)}

\* C2: every lobby reachable from the pending list has at most 3 seats filled.
C2_LinkedLobbyHasAtMostThreeSeats ==
    \A a \in Linked : games[a].playerCount <= MAX_PLAYERS - 1

\* A teardown has closed connection c and still owes the release for its seat.
ReleaseOwed(c) ==
    \E r \in Conns : /\ workers[r].pc = "release"
                     /\ \E i \in workers[r].rel..(MAX_PLAYERS - 1) : workers[r].fds[i] = c

\* C3: the admission slot of every accepted connection is released exactly
\* once: never twice, never for a seat whose slot the monitor already released,
\* and once the connection is closed and no teardown owes its release, once.
C3_SlotReleasedExactlyOnce ==
    /\ orphanRel = 0
    /\ \A c \in Conns : slotRel[c] <= 1
    /\ \A c \in Conns :
          (workers[c].pc # "none" /\ c \notin open /\ ~ReleaseOwed(c)) => slotRel[c] = 1

\* C4: add_player_to_pending_game returns seat index 3 to at most one worker
\* per Game, so at most one worker unlinks and starts it.
C4_SeatThreeReturnedOnce ==
    \A a \in Addrs : refs[a] <= 1

\* C5: no join worker runs add_player_to_pending_game on a Game that has been
\* unlinked from the pending list (or freed).
C5_NoAddAfterUnlink ==
    [][\A c \in Conns : AddPlayerToPendingGame(c) => workers[c].game \in Linked]_vars

\* C6: the seat count of a Game never goes from 4 back to fewer, so a Game
\* handed to start_game has four seats.
C6_FullLobbyKeepsFourSeats ==
    [][\A a \in Addrs : (games[a].state = "live" /\ games[a].playerCount = MAX_PLAYERS)
                           => games'[a].playerCount = MAX_PLAYERS]_vars

\* Seats 0..playerCount-1 hold distinct open connections with names, the rest are empty.
WellFormedLobby(g) ==
    /\ g.playerCount \in 0..MAX_PLAYERS
    /\ \A s \in Seats :
          IF s < g.playerCount
          THEN g.playerFds[s] \in open /\ g.playerNames[s] # NULL
          ELSE g.playerFds[s] = -1 /\ g.playerNames[s] = NULL
    /\ \A s, t \in Seats :
          (s < t /\ t < g.playerCount) => g.playerFds[s] # g.playerFds[t]

\* A successful seat puts the connection at index playerCount and adds one.
SeatTakesNextIndex ==
    \A c \in Conns :
       (AddPlayerToPendingGame(c) /\ workers'[c].pc # "failed" /\ workers[c].game \in Linked)
       => LET a == workers[c].game
              n == games[a].playerCount
          IN /\ games'[a].playerCount = n + 1
             /\ games'[a].playerFds[n] = c
             /\ games'[a].playerNames[n] = workers[c].name
             /\ \A s \in Seats : s # n => games'[a].playerFds[s] = games[a].playerFds[s]
             /\ (workers'[c].pc = "unlink" <=> n = MAX_PLAYERS - 1)

\* C7: every lobby of the pending list has playerCount in 0..4, exactly the
\* seats 0..playerCount-1 occupied by distinct connections with names, and a
\* successful seat fills index playerCount.
C7_LobbySeatsCompact ==
    /\ [](\A a \in Linked : WellFormedLobby(games[a]))
    /\ [][SeatTakesNextIndex]_vars

\* C7 witness: connection 1 was seated and then evicted by the monitor, and
\* the linked lobby holds three other connections in seats 0..2.
C7_Witness ==
    /\ workers[1].pc = "seated"
    /\ 1 \notin open
    /\ \E a \in Linked : /\ games[a].playerCount = MAX_PLAYERS - 1
                         /\ \A s \in 0..2 : games[a].playerFds[s] \in open

(* ======================================================================= *)
(* Claims about the reseat step and the deal                               *)
(* ======================================================================= *)

\* Lexicographic order on names: a is a prefix of b, or smaller at the first
\* position where they differ.
LexLeq(a, b) ==
    \/ /\ Len(a) <= Len(b)
       /\ \A k \in 1..Len(a) : a[k] = b[k]
    \/ \E k \in 1..Len(a) :
          /\ k <= Len(b)
          /\ a[k] < b[k]
          /\ \A m \in 1..(k - 1) : a[m] = b[m]

\* The (connection, name) pairs seated in a Game.
SeatedPairs(g) == {<<g.playerFds[s], g.playerNames[s]>> : s \in Seats}

\* C8: after the reseat step the seats hold the same four (connection, name)
\* pairs, one per seat, with names in non-decreasing lexicographic order;
\* Team 1 is announced as seats 0 and 2, Team 2 as seats 1 and 3.
C8_ReseatSortsByName ==
    (call.fn = "reseat" /\ call.done) =>
        /\ SeatedPairs(call.game) = SeatedPairs(call.before)
        /\ Cardinality({call.game.playerFds[s] : s \in Seats}) = MAX_PLAYERS
        /\ \A s, t \in Seats :
              s < t => LexLeq(call.game.playerNames[s], call.game.playerNames[t])
        /\ call.teams.team1 = <<call.game.playerNames[0], call.game.playerNames[2]>>
        /\ call.teams.team2 = <<call.game.playerNames[1], call.game.playerNames[3]>>

\* C8 witness: joined as B, A, BA, BB (the shape of Bob, Ann, Cid, Dee) and
\* reseated as A, B, BA, BB.
C8_Witness ==
    /\ call.fn = "reseat"
    /\ call.done
    /\ call.before.playerNames = [s \in Seats |-> <<<<66>>, <<65>>, <<66, 65>>, <<66, 66>>>>[s + 1]]
    /\ call.game.playerFds = [s \in Seats |-> <<2, 1, 3, 4>>[s + 1]]

\* C9: the reseat sort is stable: players with equal names sit, after the
\* reseat, in their join order.
C9_ReseatSortStable ==
    (call.fn = "reseat" /\ call.done) =>
        \A s, t \in Seats :
           (s < t /\ call.game.playerNames[s] = call.game.playerNames[t])
           => call.game.playerFds[s] < call.game.playerFds[t]

LegalPlay(c, card) ==
    LET held == HandSet(c.hands[TurnSeat(c)])
    IN /\ card \in held
       /\ \/ c.offset = 0
          \/ card[2] = c.leadSuit
          \/ \A cd \in held : cd[2] # c.leadSuit

\* The step accepted a card from the seat that was in turn.
AcceptedStep ==
    /\ call'.out[TurnSeat(call)] # <<>>
    /\ call'.out[TurnSeat(call)][1] = AcceptLine

\* C11: a card token is accepted iff the card is in the seat's hand and,
\* for a follower, has the led suit or the hand holds no card of the led suit.
C11_AcceptedIffLegal ==
    [][(call.fn = "tricks" /\ call.state = "reading") =>
          \A line \in SentLines(call) :
             (parse_card_token(line) /\ call' = ApplyLine(call, line))
             => (AcceptedStep <=> LegalPlay(call, line))]_vars

\* C11 witness: a follower without the led suit has had another suit accepted
\* in the trick being played.
C11_Witness ==
    /\ call.fn = "tricks"
    /\ call.state = "reading"
    /\ \E k \in 2..MAX_PLAYERS : k <= call.offset /\ call.plays[k][2] # call.leadSuit

\* Cards still held over the four seats.
CardsHeld(c) == c.hands[0].count + c.hands[1].count + c.hands[2].count + c.hands[3].count

\* C12: an accepted card is in no hand afterwards and every accept takes a
\* card not accepted before: accepted and held cards are disjoint and
\* together always number 52.
C12_CardAcceptedAtMostOnce ==
    call.fn = "tricks" =>
        /\ \A seat \in Seats : HandSet(call.hands[seat]) \cap call.accepted = {}
        /\ Cardinality(call.accepted) + CardsHeld(call) = PackSize

\* C12 witness: a game in which all 52 cards were accepted.
C12_Witness ==
    /\ call.fn = "tricks"
    /\ call.state = "completed"
    /\ Cardinality(call.accepted) = PackSize
    /\ CardsHeld(call) = 0

\* Position of a rank in 2..A.
RankOrder(rankChar) == CHOOSE i \in 1..Len(RANKS_STRING) : RANKS_STRING[i] = rankChar

\* C13: when the fourth play of a trick is accepted, the announced winner is
\* the seat whose card has the led suit and the highest rank among the plays
\* of the led suit; it leads the next trick.
C13_WinnerHighestOfLedSuit ==
    [][(call.fn = "tricks" /\ call'.trick = call.trick + 1) =>
          LET last == CHOOSE cd \in call'.accepted \ call.accepted : TRUE
              plays == [call.plays EXCEPT ![MAX_PLAYERS] = last]
              w == call'.leaderSeat
              wOff == (w - call.leaderSeat + MAX_PLAYERS) % MAX_PLAYERS
          IN /\ plays[wOff + 1][2] = call.leadSuit
             /\ \A k \in 1..MAX_PLAYERS :
                   (plays[k][2] = call.leadSuit /\ k # wOff + 1)
                   => RankOrder(plays[k][1]) < RankOrder(plays[wOff + 1][1])
             /\ \A j \in Seats : call'.out[j][2] = <<"M", <<80, 49 + w>>, "won">>]_vars

\* C13 witness: seat 3 led a trick and seat 1 won it and has been prompted to lead.
C13_Witness ==
    /\ call.fn = "tricks"
    /\ call.state = "reading"
    /\ call.trick > 1
    /\ call.offset = 0
    /\ call.leaderSeat = 1
    /\ call.out[0] = <<PlaysLine(call.game, 2, "2", "S"), WonLine(1)>>

\* C14: the tallies always sum to the number of tricks finished, each trick
\* credited to the team of its winner; at completion they sum to 13 and are
\* the tallies of the final-score line.
C14_TalliesSumToThirteen ==
    call.fn = "tricks" =>
        /\ call.teamTricks[0] + call.teamTricks[1] = call.trick
        /\ call.teamTricks[0] = call.wins[0] + call.wins[2]
        /\ call.teamTricks[1] = call.wins[1] + call.wins[3]
        /\ call.state = "completed" =>
              /\ call.teamTricks[0] + call.teamTricks[1] = MAX_TRICK
              /\ \A j \in Seats :
                    call.out[j][3] = FinalScoreLine(call.teamTricks[0], call.teamTricks[1])

\* C14 witness: a completed game in which both teams won tricks.
C14_Witness ==
    /\ call.fn = "tricks"
    /\ call.state = "completed"
    /\ call.teamTricks[0] > 0
    /\ call.teamTricks[1] > 0

\* C15: after a failed read the other three seats have the notice naming the
\* dropped seat and then the game-over line, the dropped seat has nothing,
\* and no further line is read or prompt sent.
C15_DisconnectEndsGame ==
    (call.fn = "tricks" /\ call.state = "terminated") =>
        LET dropped == TurnSeat(call)
        IN /\ call.out[dropped] = <<>>
           /\ \A j \in Seats \ {dropped} :
                 call.out[j] = << <<"M", call.game.playerNames[dropped], "disconnected early">>,
                                  <<"O">> >>
           /\ ~ENABLED NextTricks

\* C15 witness: seat 2 dropped in the middle of the fifth trick.
C15_Witness ==
    /\ call.fn = "tricks"
    /\ call.state = "terminated"
    /\ call.trick = 4
    /\ call.offset = 2
    /\ TurnSeat(call) = 2

\* C20: a rejected line changes nothing but the lines sent to the same seat:
\* hands, plays, led suit, seat in turn, trick number, tallies and the
\* counters stay, and the seat is read again.
C20_RejectChangesNothing ==
    [][(call.fn = "tricks" /\ call.state = "reading") =>
          \A line \in SentLines(call) :
             (call' = ApplyLine(call, line) /\ ~(parse_card_token(line) /\ LegalPlay(call, line)))
             => /\ [call' EXCEPT !.out = call.out] = call
                /\ stats' = stats
                /\ \A j \in Seats \ {TurnSeat(call)} : call'.out[j] = <<>>
                /\ call'.out[TurnSeat(call)] =
                      (IF call.offset = 0 THEN <<LeadPrompt>>
                       ELSE <<InvalidLine, PlayPrompt(call.leadSuit)>>)
                /\ call'.state = "reading"
                /\ TurnSeat(call') = TurnSeat(call)]_vars

\* C20 witness: a follower of the third trick has just been rejected.
C20_Witness ==
    /\ call.fn = "tricks"
    /\ call.state = "reading"
    /\ call.trick = 2
    /\ call.offset = 1
    /\ call.out[TurnSeat(call)] = <<InvalidLine, PlayPrompt(call.leadSuit)>>

(* ======================================================================= *)
(* Claims about the counters, the admission slots and the handshake        *)
(* ======================================================================= *)

\* Worker c is a referee between gamesRunning++ and gamesRunning--.
InTrickLoop(c) == workers[c].pc \in {"playing", "ended"}

\* C16: gamesRunning counts the referees in their trick loop; a game ended
\* by a failed read adds 1 to gamesTerminated and nothing to gamesCompleted,
\* a game of 13 tricks adds 1 to gamesCompleted and nothing to
\* gamesTerminated, and nothing else changes these counters.
C16_OneOutcomePerGame ==
    /\ [](stats.gamesRunning = Cardinality({c \in Conns : InTrickLoop(c)}))
    /\ [][/\ \A c \in Conns :
               (workers[c].pc = "playing" /\ workers'[c].pc = "ended") =>
                  /\ stats'.gamesCompleted = stats.gamesCompleted
                  /\ stats'.gamesTerminated = stats.gamesTerminated + workers'[c].ended
                  /\ workers'[c].ended \in {0, 1}
                  /\ workers'[c].ended = 0 <=> workers'[c].trick = MAX_TRICK
          /\ \A c \in Conns :
               (workers[c].pc = "ended" /\ workers'[c].pc = "release") =>
                  /\ stats'.gamesTerminated = stats.gamesTerminated
                  /\ stats'.gamesCompleted = stats.gamesCompleted + (1 - workers[c].ended)
          /\ (stats'.gamesCompleted # stats.gamesCompleted
              \/ stats'.gamesTerminated # stats.gamesTerminated) =>
                 \E c \in Conns : InTrickLoop(c) /\ workers'[c].pc # workers[c].pc]_vars

\* C16 witness: one game has completed normally, none was terminated, none is running.
C16_Witness ==
    /\ stats.gamesCompleted + stats.gamesTerminated = 1
    /\ stats.gamesCompleted = 1
    /\ stats.gamesRunning = 0

\* C17: activeClients grows only by acquire_conn_slot, by 1, from a state
\* with maxConns = 0 or activeClients < maxConns; with maxConns = 0 the
\* dispatcher never waits; with maxConns = N > 0 at most N slots are held, and
\* with N = 2 at most two connections are open.
C17_AcquireRespectsLimit ==
    /\ [](maxConns > 0 => activeClients <= maxConns)
    /\ [](maxConns = 0 => dpc # "waiting")
    /\ [](maxConns = 2 => Cardinality(open) <= 2)
    /\ [][/\ activeClients' > activeClients =>
               /\ dpc = "acquire"
               /\ dpc' = "accept"
               /\ maxConns = 0 \/ activeClients < maxConns
               /\ activeClients' = activeClients + 1
          /\ (dpc = "acquire" /\ dpc' = "accept") => activeClients' = activeClients + 1
          /\ (dpc = "acquire" /\ dpc' = "waiting") =>
                (maxConns > 0 /\ activeClients >= maxConns /\ activeClients' = activeClients)
          /\ Cardinality(open') > Cardinality(open) => dpc = "accept"]_vars

\* C17 witness: with maxconns 2 a third connection has been accepted after
\* one of the first two was closed.
C17_Witness ==
    /\ maxConns = 2
    /\ stats.totalPlayersConnected = 3
    /\ Cardinality(open) = 2
    /\ 3 \in open

\* C18: the dispatcher never waits while a slot is free (a release wakes
\* it), and a dispatcher in acquire_conn_slot with a free slot eventually
\* leaves it.
C18_ReleaseWakesDispatcher ==
    /\ [](dpc = "waiting" => (maxConns > 0 /\ activeClients >= maxConns))
    /\ (dpc = "acquire" /\ (maxConns = 0 \/ activeClients < maxConns)) ~> (dpc = "accept")

\* C18 witness: both slots were held, the monitor evicted connection 1, and
\* the dispatcher is back in acquire_conn_slot with a free slot.
C18_Witness ==
    /\ maxConns = 2
    /\ dpc = "acquire"
    /\ activeClients = 1
    /\ stats.totalPlayersConnected = 2
    /\ workers[1].pc = "seated"
    /\ 1 \notin open

IsPrompt(line) == line = LeadPrompt \/ (Len(line) = 2 /\ line[1] = "P")

\* A line that announces a play.
IsPlays(line) == Len(line) = 5 /\ line[3] = "plays"

\* The seats the last step prompted.
PromptedSeats(c) ==
    {j \in Seats : \E k \in 1..Len(c.out[j]) : IsPrompt(c.out[j][k])}

\* The seats the last step sent the announcement of a play.
AnnouncedSeats(c) ==
    {j \in Seats : \E k \in 1..Len(c.out[j]) : IsPlays(c.out[j][k])}

\* The seats the last step sent an A.
AcceptedSeats(c) ==
    {j \in Seats : \E k \in 1..Len(c.out[j]) : c.out[j][k] = AcceptLine}

\* The last line of a non-empty sequence of lines.
LastLine(lines) == lines[Len(lines)]

\* C21: while a game is read exactly one seat holds a prompt, the one at
\* leader + offset; only the hand of that seat can change in a step; an
\* accepted card passes the prompt to the next seat (after the announcement
\* of the play) and the fourth one to the winner (after the announcement of
\* the winner, in the next trick); a rejected line leaves it where it is.
C21_PromptsInTurnOrder ==
    /\ [](call.fn = "tricks" =>
            IF call.state = "reading"
            THEN /\ PromptedSeats(call) = {(call.leaderSeat + call.offset) % MAX_PLAYERS}
                 /\ \A j \in PromptedSeats(call) :
                       LastLine(call.out[j]) =
                          (IF call.offset = 0 THEN LeadPrompt ELSE PlayPrompt(call.leadSuit))
            ELSE PromptedSeats(call) = {})
    /\ [][(call.fn = "tricks" /\ call.state = "reading") =>
            LET holder == CHOOSE j \in Seats : j \in PromptedSeats(call)
                next == CHOOSE j \in Seats : j \in PromptedSeats(call')
                taken == call'.out[holder] # <<>> /\ call'.out[holder][1] = AcceptLine
            IN /\ \A j \in Seats \ {holder} : call'.hands[j] = call.hands[j]
               /\ taken => call'.hands[holder].count = call.hands[holder].count - 1
               /\ call'.state = "reading" =>
                     IF ~taken
                     THEN /\ next = holder
                          /\ call'.trick = call.trick
                          /\ call'.offset = call.offset
                     ELSE IF call.offset < MAX_PLAYERS - 1
                     THEN /\ next = (holder + 1) % MAX_PLAYERS
                          /\ call'.trick = call.trick
                          /\ call'.offset = call.offset + 1
                          /\ Len(call'.out[next]) = 2
                          /\ IsPlays(call'.out[next][1])
                     ELSE /\ call'.trick = call.trick + 1
                          /\ call'.offset = 0
                          /\ \A j \in Seats : WonLine(next) \in Range(call'.out[j])
                          /\ call'.out[next][Len(call'.out[next]) - 1] = WonLine(next)]_vars

\* C21 witness: seat 1 leads the second trick, three plays are in, and the
\* prompt has wrapped around to seat 0 behind the announcement of seat 3's play.
C21_Witness ==
    /\ call.fn = "tricks"
    /\ call.state = "reading"
    /\ call.trick = 1
    /\ call.leaderSeat = 1
    /\ call.offset = MAX_PLAYERS - 1
    /\ Len(call.out[0]) = 2
    /\ call.out[0][1][2] = call.game.playerNames[3]
    /\ call.out[0][2] = PlayPrompt(call.leadSuit)

\* C22: seat 0 leads the first trick; the leader changes only when a trick
\* ends, and then to the one seat announced as its winner, which is sent the
\* lead prompt of the next trick.
C22_LeaderIsPreviousWinner ==
    /\ []((call.fn = "tricks" /\ call.trick = 0) => call.leaderSeat = 0)
    /\ []((call.fn = "tricks" /\ call.state = "reading" /\ call.offset = 0) =>
             LastLine(call.out[call.leaderSeat]) = LeadPrompt)
    /\ [][call.fn = "tricks" =>
            /\ call'.trick = call.trick => call'.leaderSeat = call.leaderSeat
            /\ call'.trick # call.trick =>
                  \E w \in Seats :
                     /\ \A j \in Seats : call'.out[j][2] = <<"M", <<80, 49 + w>>, "won">>
                     /\ \A j \in Seats : \A k \in 3..Len(call'.out[j]) :
                           call'.out[j][k] = <<"L">> \/ call'.state = "completed"
                     /\ call'.leaderSeat = w
                     /\ call'.state = "reading" => LastLine(call'.out[w]) = <<"L">>]_vars

\* C22 witness: seat 2 won a trick led by another seat and has the lead
\* prompt of the third or a later trick.
C22_Witness ==
    /\ call.fn = "tricks"
    /\ call.state = "reading"
    /\ call.trick >= 2
    /\ call.offset = 0
    /\ call.leaderSeat = 2
    /\ call.out[2] = <<AcceptLine, WonLine(2), LeadPrompt>>

\* C23: an accepted play sends A to the playing seat and the announcement of
\* that play, once, to each of the other three seats and not to the playing
\* seat; a step that accepts nothing sends no A and no announcement.
C23_PlayAnnouncedToOthersOnly ==
    [][(call.fn = "tricks" /\ call.state = "reading") =>
          LET seat == TurnSeat(call)
          IN IF call'.accepted # call.accepted
             THEN \E cd \in call'.accepted \ call.accepted :
                     /\ call'.out[seat][1] = <<"A">>
                     /\ AcceptedSeats(call') = {seat}
                     /\ AnnouncedSeats(call') = Seats \ {seat}
                     /\ \A j \in Seats \ {seat} :
                          /\ call'.out[j][1] =
                                <<"M", call.game.playerNames[seat], "plays", cd[1], cd[2]>>
                          /\ \A k \in 2..Len(call'.out[j]) : ~IsPlays(call'.out[j][k])
             ELSE /\ AcceptedSeats(call') = {}
                  /\ AnnouncedSeats(call') = {}]_vars

\* C23 witness: seat 3 has had a card accepted as the third play of a trick.
C23_Witness ==
    /\ call.fn = "tricks"
    /\ call.state = "reading"
    /\ call.offset = MAX_PLAYERS - 1
    /\ call.out[3] = <<AcceptLine>>
    /\ \A j \in 0..2 : IsPlays(call.out[j][1])

\* C24: a completed game has 13 tricks; every seat's last two lines are the
\* result and O, and nothing is sent or read afterwards; no O is sent while
\* the game is read; the result names the team with strictly more tricks and
\* its tally, and is a draw exactly for equal tallies.
C24_ResultThenGameOver ==
    /\ (call.fn = "tricks" /\ call.state = "completed") =>
          /\ call.trick = MAX_TRICK
          /\ ~ENABLED ReadLine
          /\ ~ENABLED ReadFails
          /\ \A j \in Seats :
                LET n == Len(call.out[j])
                    result == call.out[j][n - 1]
                    t1 == call.wins[0] + call.wins[2]
                    t2 == call.wins[1] + call.wins[3]
                IN /\ n >= 2
                   /\ call.out[j][n] = <<"O">>
                   /\ \A k \in 1..(n - 1) : call.out[j][k] # <<"O">>
                   /\ t1 > t2 => result = <<"M", "Winner is Team 1", t1>>
                   /\ t2 > t1 => result = <<"M", "Winner is Team 2", t2>>
                   /\ t1 = t2 => result[2] = "Game result: Draw"
    /\ (call.fn = "tricks" /\ call.state = "reading") =>
          \A j \in Seats : <<"O">> \notin Range(call.out[j])
    /\ \A t1, t2 \in 0..MAX_TRICK :
          LET result == FinalScoreLine(t1, t2)
          IN /\ (result[2] = "Winner is Team 1") <=> (t1 > t2)
             /\ (result[2] = "Winner is Team 2") <=> (t2 > t1)
             /\ (result[2] = "Game result: Draw") <=> (t1 = t2)

\* C24 witness: a completed game that team 2 won.
C24_Witness ==
    /\ call.fn = "tricks"
    /\ call.state = "completed"
    /\ call.wins[1] + call.wins[3] > call.wins[0] + call.wins[2]
    /\ call.out[0][Len(call.out[0]) - 1][2] = "Winner is Team 2"

\* C25: totalTricksPlayed is the number of tricks with four accepted plays:
\* it grows by 1 exactly on the fourth accepted play of a trick; a failed
\* read changes neither it nor a tally; a game terminated in its k-th trick
\* has added k-1 and a completed game 13.
C25_TrickCountedOnFourthPlay ==
    /\ [](call.fn = "tricks" =>
            /\ stats.totalTricksPlayed = Cardinality(call.accepted) \div MAX_PLAYERS
            /\ call.teamTricks[0] + call.teamTricks[1] = Cardinality(call.accepted) \div MAX_PLAYERS
            /\ call.state = "terminated" =>
                  /\ stats.totalTricksPlayed = call.trick
                  /\ call.trick < MAX_TRICK
            /\ call.state = "completed" => stats.totalTricksPlayed = MAX_TRICK)
    /\ [][call.fn = "tricks" =>
            /\ stats'.totalTricksPlayed = stats.totalTricksPlayed +
                  (IF call.offset = MAX_PLAYERS - 1 /\ call'.accepted # call.accepted
                   THEN 1 ELSE 0)
            /\ call'.state = "terminated" =>
                  /\ stats'.totalTricksPlayed = stats.totalTricksPlayed
                  /\ call'.teamTricks = call.teamTricks
                  /\ call'.accepted = call.accepted]_vars

\* C25 witness: a game terminated in its third trick after two accepted
\* plays of that trick, with two tricks counted.
C25_Witness ==
    /\ call.fn = "tricks"
    /\ call.state = "terminated"
    /\ call.trick = 2
    /\ call.offset = 2
    /\ stats.totalTricksPlayed = 2

\* C27: a referee that has dealt the hands is counted in gamesRunning.
C27_RunningCountedBeforeDeal ==
    stats.gamesRunning >= Cardinality({c \in Conns : workers[c].pc \in {"dealt", "playing", "ended"}})

\* C28: an I line leaves the client running with its hand as it was, and a
\* line ends the client with the protocol error only when its tag is none of
\* the protocol's, or it is a second hand or a prompt without a valid suit.
C28_InvalidNoticeNotFatal ==
    [][(call.fn = "client" /\ ~call.exited) =>
          /\ call'.last = "I" => (~call'.exited /\ call'.hand = call.hand)
          /\ (call'.exited /\ call'.status = 7 /\ call'.last # "") =>
                \/ call'.last \notin ProtocolTags
                \/ call'.last = "H" /\ call.hand.count > 0
                \/ call'.last = "P"]_vars

\* C29: no two lobbies of the pending list have the same game name;
\* get_or_create_pending_game returns the linked lobby of exactly that name
\* and changes nothing when there is one, and otherwise puts a new lobby of
\* that name with no seat at the head of the list.
C29_OneLobbyPerName ==
    /\ [](\A i, j \in 1..Len(pending) :
             i # j => games[pending[i]].gameName # games[pending[j]].gameName)
    /\ [][\A c \in Conns, n \in JoinNames, gn \in LobbyNames :
             GetOrCreatePendingGame(c, n, gn) =>
                LET a == workers'[c].game
                IN IF \E b \in Linked : games[b].gameName = gn
                   THEN /\ a \in Linked
                        /\ games[a].gameName = gn
                        /\ pending' = pending
                        /\ games' = games
                   ELSE /\ games[a].state = "unused"
                        /\ pending' = <<a>> \o pending
                        /\ games'[a].gameName = gn
                        /\ games'[a].playerCount = 0
                        /\ \A s \in Seats : games'[a].playerFds[s] = -1
                        /\ \A b \in Addrs \ {a} : games'[b] = games[b]]_vars

\* C29 witness: lobbies "Foo" and "Bar" are both linked, two workers hold
\* the same "Foo" lobby from concurrent lookups, and neither is seated yet.
C29_Witness ==
    /\ Len(pending) = 2
    /\ \E c, r \in Conns :
          /\ c # r
          /\ workers[c].pc = "add"
          /\ workers[r].pc = "add"
          /\ workers[c].game = workers[r].game
          /\ games[workers[c].game].gameName = "Foo"
          /\ games[workers[c].game].playerCount = 0

\* Worker c runs start_game.
Referee(c) == workers[c].pc \in {"start", "dealt", "playing", "ended", "release"}

\* The connection whose slot the next release_conn_slot call of referee c
\* gives back, -1 when that seat held none.
ReleasedFd(c) == workers[c].fds[workers[c].rel]

\* C26: a step of the referee of one Game changes no other Game object, not
\* the pending list and no other worker, and it changes activeClients only
\* by taking 1 for a connection that sat in its own Game and whose slot has
\* not been released before.
C26_RefereeTouchesOwnGameOnly ==
    [][\A c \in Conns :
          (Referee(c) /\ workers'[c] # workers[c]) =>
             /\ \A a \in Addrs \ {workers[c].game} : games'[a] = games[a]
             /\ pending' = pending
             /\ \A r \in Conns \ {c} : workers'[r] = workers[r]
             /\ workers[c].pc # "release" => activeClients' = activeClients
             /\ workers[c].pc = "release" =>
                   /\ ReleasedFd(c) >= 0
                   /\ slotRel[ReleasedFd(c)] = 0
                   /\ activeClients' = activeClients - 1]_vars

\* The seats of a lobby whose connection has not hung up, in seat order.
KeptSeats(g) ==
    SelectSeq([k \in 1..g.playerCount |-> k - 1], LAMBDA s : ~Hung(g.playerFds[s]))

\* The connections one sweep evicts: seated in a linked lobby and hung up.
EvictedBySweep ==
    {c \in Conns : /\ Hung(c)
                   /\ \E a \in Linked, s \in Seats :
                         s < games[a].playerCount /\ games[a].playerFds[s] = c}

\* C30: a sweep leaves in every linked lobby exactly the seats that have not
\* hung up, in their previous order in seats 0.., clears the seats behind
\* them and counts them in playerCount; it closes each evicted connection,
\* releases its slot once, and takes one from activeClients and from
\* activeClientSockets per evicted connection; nothing else is evicted.
C30_SweepEvictsClosedSeatsOnce ==
    [][MonitorSweep =>
          /\ \A a \in Linked :
                LET g == games[a]
                    h == games'[a]
                    kept == KeptSeats(g)
                IN /\ h.playerCount = Len(kept)
                   /\ h.playerCount = g.playerCount - Cardinality({s \in Seats :
                          s < g.playerCount /\ Hung(g.playerFds[s])})
                   /\ \A k \in 1..Len(kept) :
                         /\ h.playerFds[k - 1] = g.playerFds[kept[k]]
                         /\ h.playerNames[k - 1] = g.playerNames[kept[k]]
                   /\ \A s \in Seats : s >= Len(kept) =>
                         (h.playerFds[s] = -1 /\ h.playerNames[s] = NULL)
          /\ \A a \in Addrs \ Linked : games'[a] = games[a]
          /\ pending' = pending
          /\ open' = open \ EvictedBySweep
          /\ \A c \in Conns :
                slotRel'[c] = slotRel[c] + (IF c \in EvictedBySweep THEN 1 ELSE 0)
          /\ stats'.activeClientSockets =
                stats.activeClientSockets - Cardinality(EvictedBySweep)
          /\ activeClients' = activeClients - Cardinality(EvictedBySweep)]_vars

(* ======================================================================= *)
(* Claims about the led suit, the re-prompts and the hands                 *)
(* ======================================================================= *)

\* C32: once the leader's card is in, the led suit is the suit of that card,
\* so when the fourth play is collected the first play has the led suit and
\* the loop of winning_seat_in_trick ends with a best value that is not
\* negative.
C32_LeaderPlayHasLedSuit ==
    /\ []((call.fn = "tricks" /\ call.offset >= 1) =>
             /\ is_valid_suit(call.leadSuit)
             /\ call.plays[1][2] = call.leadSuit)
    /\ [][(call.fn = "tricks" /\ call'.trick = call.trick + 1) =>
             LET last == CHOOSE cd \in call'.accepted \ call.accepted : TRUE
                 plays == [call.plays EXCEPT ![MAX_PLAYERS] = last]
             IN /\ plays[1][2] = call.leadSuit
                /\ rank_value(plays[1][1]) >= 0
                /\ \E k \in 1..MAX_PLAYERS :
                      /\ plays[k][2] = call.leadSuit
                      /\ rank_value(plays[k][1]) >= RANK_LOWEST_VALUE]_vars

\* C32 witness: a trick ended in which only the leader's card had the led suit.
C32_Witness ==
    /\ call.fn = "tricks"
    /\ call.trick >= 1
    /\ call.offset = 0
    /\ call.prev[1][2] # call.prev[2][2]
    /\ call.prev[1][2] # call.prev[3][2]
    /\ call.prev[1][2] # call.prev[4][2]

\* Why the line is rejected, in the order of the tests: no card token, a
\* follower leaving the led suit it holds, a card not in the hand; "" when
\* it is accepted.
RejectCause(c, line) ==
    LET hand == c.hands[TurnSeat(c)]
    IN IF ~(Len(line) = 2 /\ rank_value(line[1]) >= 0 /\ is_valid_suit(line[2]))
       THEN "malformed"
       ELSE IF c.offset > 0 /\ line[2] # c.leadSuit
               /\ \E cd \in HandSet(hand) : cd[2] = c.leadSuit
       THEN "follow-suit"
       ELSE IF <<line[1], line[2]>> \notin HandSet(hand) THEN "not-held"
       ELSE ""

\* C33: whatever the cause of the rejection, a leader is sent L alone and a
\* follower I and then P with the led suit of its prompt, and no other seat
\* is sent anything.
C33_RepromptByRole ==
    [][(call.fn = "tricks" /\ call.state = "reading") =>
          \A line \in SentLines(call) :
             (call' = ApplyLine(call, line) /\ RejectCause(call, line) # "") =>
                LET seat == (call.leaderSeat + call.offset) % MAX_PLAYERS
                IN /\ \A j \in Seats \ {seat} : call'.out[j] = <<>>
                   /\ call.offset = 0 =>
                         /\ call'.out[seat] = << <<"L">> >>
                         /\ <<"I">> \notin Range(call'.out[seat])
                   /\ call.offset > 0 =>
                         /\ call'.out[seat] = << <<"I">>, <<"P", call.leadSuit>> >>
                         /\ LastLine(call.out[seat]) = LastLine(call'.out[seat])
                         /\ call'.leadSuit = call.leadSuit]_vars

\* C33 witness: the last follower of the fourth trick holds the led suit and
\* has just been sent I and the prompt again.
C33_Witness ==
    /\ call.fn = "tricks"
    /\ call.state = "reading"
    /\ call.trick = 3
    /\ call.offset = MAX_PLAYERS - 1
    /\ has_suit_in_hand(call.hands[TurnSeat(call)], call.leadSuit)
    /\ call.out[TurnSeat(call)] = <<InvalidLine, PlayPrompt(call.leadSuit)>>

\* The seat has played in the trick under way.
HasPlayed(c, seat) ==
    \E k \in 1..c.offset : (c.leaderSeat + k - 1) % MAX_PLAYERS = seat

C40_NoDrawAfterThirteenTricks ==
    (call.fn = "tricks" /\ call.state = "completed") =>
        /\ call.teamTricks[0] # call.teamTricks[1]
        /\ call.teamTricks[0] + call.teamTricks[1] = MAX_TRICK
        /\ \A j \in Seats :
              LET result == call.out[j][Len(call.out[j]) - 1]
              IN /\ result[2] \in {"Winner is Team 1", "Winner is Team 2"}
                 /\ result[3] >= 7
                 /\ result[3] \in {call.teamTricks[0], call.teamTricks[1]}
                 /\ result[3] + result[3] > MAX_TRICK

\* C40 witness: a completed game won with the smallest possible margin, 7 to 6.
C40_Witness ==
    /\ call.fn = "tricks"
    /\ call.state = "completed"
    /\ call.out[0][Len(call.out[0]) - 1][3] = 7
    /\ {call.teamTricks[0], call.teamTricks[1]} = {6, 7}

\* C36: with a positive connection limit below four the four counters of
\* games and tricks stay 0 and no lobby holds four seats.
C36_NoGameBelowFourConnections ==
    (0 < maxConns /\ maxConns < MAX_PLAYERS) =>
        /\ stats.gamesRunning = 0
        /\ stats.gamesCompleted = 0
        /\ stats.gamesTerminated = 0
        /\ stats.totalTricksPlayed = 0
        /\ \A a \in Addrs : games[a].state = "live" => games[a].playerCount < MAX_PLAYERS

\* C36 witness: the limit is three, a lobby holds three seats, and a fourth
\* client has been admitted after an earlier one left.
C36_Witness ==
    /\ maxConns = MAX_PLAYERS - 1
    /\ stats.totalPlayersConnected >= MAX_PLAYERS
    /\ \E a \in Addrs : games[a].state = "live" /\ games[a].playerCount = MAX_PLAYERS - 1
    /\ stats.gamesRunning = 0

\* C35: no worker that completed the handshake gets -1 from
\* add_player_to_pending_game: the lobby it was given still has a free seat
\* when it adds itself.
C35_ValidJoinAlwaysSeated ==
    \A c \in Conns :
        /\ workers[c].pc # "failed"
        /\ workers[c].pc = "add" =>
              (games[workers[c].game].state = "live" =>
                  games[workers[c].game].playerCount < MAX_PLAYERS)

\* Connection c is on a seat of a lobby that is on the pending list and has a
\* free seat.
InOpenLobby(c) ==
    \E a \in Addrs :
        /\ InPending(a)
        /\ games[a].state = "live"
        /\ games[a].playerCount < MAX_PLAYERS
        /\ \E s \in Seats : s < games[a].playerCount /\ games[a].playerFds[s] = c

\* Connection c is on a seat of a lobby that is full or off the pending list.
InFullLobby(c) ==
    \E a \in Addrs :
        /\ \E s \in Seats : games[a].playerFds[s] = c
        /\ (games[a].playerCount >= MAX_PLAYERS \/ ~InPending(a))

AcceptedPlays ==
    MAX_PLAYERS * call.trick + (IF call.state = "completed" THEN 0 ELSE call.offset)

\* The end of start_game: sockets closed, the game no longer counted as
\* running, one slot released for each of the four connections, the Game freed.
TornDown ==
    /\ workers[RefereeConn].pc = "done"
    /\ open \cap (1..MAX_PLAYERS) = {}
    /\ stats.activeClientSockets = 0
    /\ stats.gamesRunning = 0
    /\ stats.gamesCompleted + stats.gamesTerminated = 1
    /\ \A c \in 1..MAX_PLAYERS : slotRel[c] = 1
    /\ activeClients = 0
    /\ games[1].state = "freed"

\* C38: when every prompted peer eventually sends an accepted card or
\* closes, a game that entered play_tricks reaches the end of start_game,
\* and never more than 52 plays are accepted on the way.
C38_StartedGameReachesTeardown ==
    /\ [](call.fn = "tricks" =>
             /\ AcceptedPlays <= MAX_PLAYERS * MAX_TRICK
             /\ AcceptedPlays = Cardinality(call.accepted))
    /\ (workers[RefereeConn].pc = "playing") ~> TornDown

\* C38 witness: the teardown of a game that took all 52 plays.
C38_Witness ==
    /\ TornDown
    /\ call.fn = "tricks"
    /\ call.state = "completed"
    /\ AcceptedPlays = MAX_PLAYERS * MAX_TRICK
    /\ stats.totalTricksPlayed = MAX_TRICK

\* The rank of a card in the order of the client's display: A highest.
DisplayRank(cd) == IndexOf(RANKS_STRING, cd[1], 1)

\* The suit of a card in the order S, C, D, H.
DisplaySuit(cd) == IndexOf(<<"S", "C", "D", "H">>, cd[2], 1)

\* C34: after the H line of a seat is parsed the client holds the 13 cards
\* the server dealt to that seat and no other, ordered by suit S, C, D, H and
\* within a suit from the highest rank to the lowest.
C34_ParsedHandSortedAndComplete ==
    (call.fn = "hand" /\ call.state # "received") =>
        /\ call.state = "parsed"
        /\ call.hand.count = call.dealt.count
        /\ Len(call.hand.cards) = call.hand.count
        /\ Range(call.hand.cards) = Range(call.dealt.cards)
        /\ \A i, j \in 1..Len(call.hand.cards) :
              i < j =>
                 \/ DisplaySuit(call.hand.cards[i]) < DisplaySuit(call.hand.cards[j])
                 \/ /\ DisplaySuit(call.hand.cards[i]) = DisplaySuit(call.hand.cards[j])
                    /\ DisplayRank(call.hand.cards[i]) > DisplayRank(call.hand.cards[j])

\* C39: whenever the server waits for the card of a seat, the client of that
\* seat is running and holds the cards of the server-side hand of the seat
\* and no other; no seat has been sent I and no client has left with a
\* protocol error.
C39_ClientHandMirrorsServerHand ==
    call.fn = "table" =>
        /\ call.srv.state = "reading" =>
              LET seat == TurnSeat(call.srv)
              IN /\ ~call.clients[seat].exited
                 /\ call.clients[seat].hand.count = call.srv.hands[seat].count
                 /\ HandSet(call.clients[seat].hand) = HandSet(call.srv.hands[seat])
        /\ \A j \in Seats :
              /\ \A k \in 1..Len(call.srv.out[j]) : call.srv.out[j][k] # <<"I">>
              /\ call.clients[j].exited => call.clients[j].status \in {0, 17}

====
